---- MODULE Spec2Model ----
(***************************************************************************)
(* Model of the cloudlets policy export (package cloudlets): the policy    *)
(* finder, the latest-version resolver, the activation aggregator and      *)
(* createPolicy, together with the older copy of the same package.         *)
(*                                                                         *)
(* The management API is the environment: every request is answered, at    *)
(* the moment it is made, by an error or by a page drawn from a small set  *)
(* of page shapes.  A page is kept in the state by its shape (length and   *)
(* the positions of the interesting entries); the code scans the page that *)
(* the shape stands for, entry by entry, with the real page size.          *)
(***************************************************************************)
EXTENDS Integers, Sequences, FiniteSets, TLC

VARIABLES
    entry,      \* the function the run was started with
    pc,         \* position of the run
    args,       \* [policyName, section]: the arguments of the run
    offset,     \* local `offset` of the paginating loop that is running
    calls,      \* the API requests made so far, with their answers
    findRes,    \* <<>> or <<[policy, err]>>: what the finder returned
    version,    \* local `version` of getLatestPolicyVersion
    verRes,     \* <<>> or <<[policyVersion, err]>>: what the resolver returned
    tfPolicyData, \* <<>> or <<TFPolicyData>> under assembly in createPolicy
    alb,        \* locals of the load balancer loops: origin IDs, position, results
    retErr,     \* <<>> while running, else <<err>> with err = <<>> for nil
    aggPolicy,  \* getActiveVersionAndProperties called on its own: its policy,
    aggNetwork, \*   its network,
    aggRes,     \*   and <<>> before the call, <<result>> after it
    tmplData,   \* the data a template is executed against, <<>> if none
    tmplOut,    \* <<>> before the execution, <<output>> after it
    tmplQueue,  \* ProcessTemplates of the file processor: the templates still
                \*   to process, in the order the range over the map yields them
    tmplBroken, \*   the templates whose lookup or execution fails
    filesWritten, \* the destination paths written so far
    processErr, \*   <<>> while it runs, else <<err>> with err = <<>> for nil
    escaped,    \* <<name>>, then <<name, escapeName(name)>>, and so on
    tfState,    \* package variable tfState of dns: <<>> for nil, else <<state>>
    stateFile,  \* the Terraform state on disk: <<>> if unreadable, else <<state>>
    reads,      \* number of readTfState calls made so far
    checks,     \* the checkForResource calls made so far, with their results
    lbaRes,     \* <<>> or <<r>>: one call of getApplicationLoadBalancerActivation
                \*   on its own, with its arguments, the listing and its result
    exportInput, \* two export runs of one policy: the answers of the API,
    exportRuns  \*   and per run <<>> or <<the load balancer lists assembled>>

cloudletVars == <<entry, pc, args, offset, calls, findRes, version, verRes,
                  tfPolicyData, alb, retErr>>

aggVars == <<aggPolicy, aggNetwork, aggRes>>

tmplVars == <<tmplData, tmplOut>>

procVars == <<tmplQueue, tmplBroken, filesWritten, processErr>>

escVars == <<escaped>>

dnsVars == <<tfState, stateFile, reads, checks>>

lbaVars == <<lbaRes>>

runVars == <<exportInput, exportRuns>>

vars == <<cloudletVars, aggVars, tmplVars, procVars, escVars, dnsVars, lbaVars,
          runVars>>

\* the variables the export run leaves alone
outsideCloudlets == <<aggVars, tmplVars, procVars, escVars, dnsVars, lbaVars,
                      runVars>>

\* the variables a call of the aggregator on its own leaves alone
outsideAgg == <<cloudletVars, tmplVars, procVars, escVars, dnsVars, lbaVars,
                runVars>>

\* the variables a call of getApplicationLoadBalancerActivation leaves alone
outsideLba == <<cloudletVars, aggVars, tmplVars, procVars, escVars, dnsVars,
                runVars>>

\* the variables the execution of a template leaves alone
outsideTmpl == <<cloudletVars, aggVars, procVars, escVars, dnsVars, lbaVars,
                 runVars>>

\* the variables the file processor leaves alone
outsideProc == <<cloudletVars, aggVars, tmplVars, escVars, dnsVars, lbaVars,
                 runVars>>

\* the variables escapeName leaves alone
outsideEsc == <<cloudletVars, aggVars, tmplVars, procVars, dnsVars, lbaVars,
                runVars>>

\* the variables checkForResource leaves alone
outsideDns == <<cloudletVars, aggVars, tmplVars, procVars, escVars, lbaVars,
                runVars>>

\* the variables the two export runs leave alone
outsideRuns == <<cloudletVars, aggVars, tmplVars, procVars, escVars, dnsVars,
                 lbaVars>>

(***************************************************************************)
(* Bounds of the model.                                                    *)
(***************************************************************************)
\* a listing has at most MaxPages full pages before its short last page
MaxPages == 2
\* the older resolver never leaves offset 0: its requests are cut off here
MaxCalls == 4
\* version numbers are drawn from 0..MaxVersion
MaxVersion == 3

(***************************************************************************)
(* Values.                                                                 *)
(***************************************************************************)
pageSize == 1000

Nil == <<>>
Some(x) == <<x>>

MinOf(S) == CHOOSE x \in S : \A y \in S : x <= y
MaxOf(S) == CHOOSE x \in S : \A y \in S : x >= y

\* An error value: the named errors errors.Is finds in its chain, and its text.
NewError(msg) == [is |-> {}, msg |-> <<msg>>]
\* fmt.Errorf("%w: %s", sentinel, err): only the sentinel stays in the chain
WrapError(sentinel, err) == [is |-> {sentinel}, msg |-> <<sentinel>> \o err.msg]
ErrorsIs(err, sentinel) == sentinel \in err.is

ApiError == NewError("oops")

\* the locals of the load balancer loops before they run
NoAlb == [originIDs |-> <<>>, i |-> 0, network |-> "",
          loadBalancers |-> <<>>, activations |-> <<>>]

(***************************************************************************)
(* The policy listing of the API.                                          *)
(***************************************************************************)
PolicyNames == {"test_policy"}
Sections == {"test_section"}

\* the interesting positions of a page of n entries: first, middle, last
Marks(n) == {1, (n + 1) \div 2, n} \cap (1..n)

PageLens == {0, 1, pageSize - 1, pageSize}

NoActivations == <<>>

\* what the entries carrying the target name look like
PlainProfile == [CloudletCode |-> "ER", GroupID |-> 234, Activations |-> NoActivations]

\* Page shapes: `hits` are the positions of the entries named as the target,
\* `near` those of entries whose name differs from it by case only.
PolicyPageShapes(profiles) ==
    { [len |-> n, hits |-> h, near |-> c, prof |-> p] :
        n \in PageLens, h \in SUBSET {1, 500, 999, 1000},
        c \in SUBSET {1, 500, 999, 1000}, p \in profiles }

IsPolicyPage(d) ==
    /\ d.hits \subseteq Marks(d.len)
    /\ d.near \subseteq Marks(d.len)
    /\ d.hits \cap d.near = {}
    /\ (d.hits = {} => d.prof = PlainProfile)

PolicyPages(profiles) ==
    { d \in PolicyPageShapes(profiles \cup {PlainProfile}) : IsPolicyPage(d) }

FinderProfiles == {PlainProfile}

\* a set of supported cloudlets that lets another code through
supportedCloudletsAndMore == {"ALB", "AP", "AS", "CD", "ER", "FR", "IG", "VP", "ABC"}

supportedCloudlets == {"ALB", "AP", "AS", "CD", "ER", "FR", "IG", "VP"}

\* the cloudlet codes of the listed policies: the supported ones and another
CloudletCodes == supportedCloudlets \cup {"ABC"}

\* the activations of the policy of the test "with activations ER"
TestActivations ==
    << [Network |-> "staging", PolicyInfo |-> [Version |-> 2],
        PropertyInfo |-> [Name |-> "test_prp_1"]],
       [Network |-> "prod", PolicyInfo |-> [Version |-> 1],
        PropertyInfo |-> [Name |-> "test_prp_1"]],
       [Network |-> "staging", PolicyInfo |-> [Version |-> 2],
        PropertyInfo |-> [Name |-> "test_prp_2"]] >>

ProdOnlyActivations ==
    << [Network |-> "prod", PolicyInfo |-> [Version |-> 1],
        PropertyInfo |-> [Name |-> "test_prp_1"]] >>

\* the policies an export run may find under the target name
CreateProfiles ==
    { [CloudletCode |-> c, GroupID |-> 234, Activations |-> NoActivations] :
        c \in CloudletCodes }
    \cup
    { [CloudletCode |-> "ER", GroupID |-> 234, Activations |-> a] :
        a \in {TestActivations, ProdOnlyActivations} }

\* The pages ListPolicies may return: every shape when the finder is called
\* on its own; in an export run the pages of 0, 1 and pageSize entries that
\* hold the target last or not at all.
PolicyPagesFor(e) ==
    IF e = "createPolicy"
      THEN { d \in PolicyPages(CreateProfiles) :
               /\ d.len \in {0, 1, pageSize}
               /\ d.near = {}
               /\ d.hits \in {{}, {d.len}} }
      ELSE PolicyPages(FinderProfiles)

UpperName(name) == IF name = "test_policy" THEN "TEST_POLICY" ELSE "OTHER"

\* the page a shape stands for, as ListPolicies returns it at offset `off`
PolicyPage(d, off, name) ==
    [ i \in 1..d.len |->
        IF i \in d.hits
          THEN [PolicyID |-> off + i, Name |-> name,
                Description |-> "test_policy description",
                GroupID |-> d.prof.GroupID,
                CloudletCode |-> d.prof.CloudletCode,
                Activations |-> d.prof.Activations]
          ELSE [PolicyID |-> off + i,
                Name |-> IF i \in d.near THEN UpperName(name) ELSE "some policy",
                Description |-> "",
                GroupID |-> 123,
                CloudletCode |-> "ER",
                Activations |-> NoActivations] ]

ErrResp == [err |-> TRUE]
OkResp(d) == [err |-> FALSE, page |-> d]

\* a finite listing: from offset MaxPages * pageSize on, no page is full
ListPoliciesResponses(off) ==
    {ErrResp} \cup
    { OkResp(d) : d \in { p \in PolicyPagesFor(entry) :
                            off >= MaxPages * pageSize => p.len < pageSize } }

(***************************************************************************)
(* findPolicyByName, and the identical findPolicy of the older copy.       *)
(***************************************************************************)
\* a scan that goes on to the end of the page and keeps the last match
ScanPoliciesKeepLast(policies, name) ==
    LET M == {i \in DOMAIN policies : policies[i].Name = name}
    IN  IF M = {} THEN Nil ELSE Some(policies[MaxOf(M)])

\* for _, p := range policies { if p.Name == name { return &p } }
ScanPolicies(policies, name) ==
    LET M == {i \in DOMAIN policies : policies[i].Name = name}
    IN  IF M = {} THEN Nil ELSE Some(policies[MinOf(M)])

\* a loop that takes only an empty page as the end of the listing
IsLastPageOnlyIfEmpty(page) == Len(page) = 0

\* if len(policies) < pageSize { break }
IsLastPage(page) == Len(page) < pageSize

\* offset += pageSize
NextOffset(off) == off + pageSize

NotFoundError(name) == NewError(<<"policy does not exist", name>>)

\* where a function returns to: into createPolicy, or to the caller of a
\* function called on its own
ReturnTo(label) == IF entry = "createPolicy" THEN label ELSE "done"

\* One turn of the loop: one ListPolicies request and the scan of its page.
\* a finder that asks again when a request fails
RetryAfterError(self, returnTo) == self

\* if err != nil { return nil, err }: where the run goes on
ReturnAfterError(self, returnTo) == returnTo

FindLoop(self, returnTo) ==
    /\ pc = self
    /\ \E resp \in ListPoliciesResponses(offset) :
         /\ calls' = Append(calls, [op |-> "ListPolicies", arg |-> offset, resp |-> resp])
         /\ IF resp.err
              THEN /\ findRes' = Some([policy |-> Nil, err |-> Some(ApiError)])
                   /\ pc' = ReturnAfterError(self, returnTo)
                   /\ UNCHANGED offset
              ELSE LET policies == PolicyPage(resp.page, offset, args.policyName)
                       found == ScanPolicies(policies, args.policyName)
                   IN  IF found # Nil
                         THEN /\ findRes' = Some([policy |-> found, err |-> Nil])
                              /\ pc' = returnTo
                              /\ UNCHANGED offset
                         ELSE IF IsLastPage(policies)
                           THEN /\ findRes' = Some([policy |-> Nil,
                                                    err |-> Some(NotFoundError(args.policyName))])
                                /\ pc' = returnTo
                                /\ UNCHANGED offset
                           ELSE /\ offset' = NextOffset(offset)
                                /\ UNCHANGED <<findRes, pc>>
    /\ UNCHANGED <<entry, args, version, verRes, tfPolicyData, alb, retErr>>
    /\ UNCHANGED outsideCloudlets

findPolicyByName == FindLoop("findPolicyByName", ReturnTo("createPolicy_122"))

findPolicy == FindLoop("findPolicy", "done")

(***************************************************************************)
(* The finder called on its own, as its unit test calls it.                *)
(***************************************************************************)
\* no call of the aggregator on its own
IdleAgg ==
    /\ aggPolicy = Nil
    /\ aggNetwork = ""
    /\ aggRes = Nil

\* no template under execution
IdleTmpl ==
    /\ tmplData = Nil
    /\ tmplOut = Nil

\* the file processor not called
IdleProc ==
    /\ tmplQueue = <<>>
    /\ tmplBroken = {}
    /\ filesWritten = {}
    /\ processErr = Nil

\* no name under escaping
IdleEsc == escaped = <<>>

\* checkForResource never called
IdleDns ==
    /\ tfState = Nil
    /\ stateFile = Nil
    /\ reads = 0
    /\ checks = <<>>

\* getApplicationLoadBalancerActivation not called on its own
IdleLba == lbaRes = Nil

\* no pair of export runs
IdleRuns ==
    /\ exportInput = Nil
    /\ exportRuns = <<>>

\* none of the helpers outside the cloudlets export in use
IdleHelpers == IdleProc /\ IdleEsc /\ IdleDns /\ IdleLba /\ IdleRuns

InitCommon ==
    /\ IdleAgg
    /\ IdleTmpl
    /\ IdleHelpers
    /\ args \in [policyName : PolicyNames, section : Sections]
    /\ offset = 0
    /\ calls = <<>>
    /\ findRes = Nil
    /\ version = 0
    /\ verRes = Nil
    /\ tfPolicyData = Nil
    /\ alb = NoAlb
    /\ retErr = Nil

InitFind ==
    /\ entry \in {"findPolicyByName", "findPolicy"}
    /\ pc = entry
    /\ InitCommon

NextFind == findPolicyByName \/ findPolicy

SpecFind == InitFind /\ [][NextFind]_vars

(***************************************************************************)
(* The version listing of the API and getLatestPolicyVersion.              *)
(***************************************************************************)
\* Page shapes: the entry at position `at` has version `v`, every other
\* entry has version 0.
VersionPageShapes ==
    { [len |-> n, at |-> a, v |-> v] :
        n \in PageLens, a \in {0, 1, pageSize - 1, pageSize}, v \in 0..MaxVersion }

IsVersionPage(d) ==
    /\ (d.len = 0 => d.at = 0)
    /\ (d.len > 0 => d.at \in {1, d.len})
    /\ (d.v = 0 => d.at = MinOf({d.len, 1}))

VersionPages == { d \in VersionPageShapes : IsVersionPage(d) }

\* the page a shape stands for, as ListPolicyVersions returns it
VersionPage(d, policyID) ==
    [ i \in 1..d.len |->
        [PolicyID |-> policyID, Version |-> IF i = d.at THEN d.v ELSE 0] ]

\* The pages ListPolicyVersions may return: every shape when the resolver is
\* called on its own; in an export run the pages of 0, 1 and pageSize
\* entries whose last entry has version 1 or MaxVersion.
VersionPagesFor(e) ==
    IF e = "createPolicy"
      THEN { d \in VersionPages :
               /\ d.len \in {0, 1, pageSize}
               /\ d.at = d.len
               /\ d.len > 0 => d.v \in {1, MaxVersion} }
      ELSE VersionPages

\* The listing does not change during a run: an offset asked for again is
\* answered as before.  From offset MaxPages * pageSize on no page is full.
ListPolicyVersionsResponses(off) ==
    LET before == { i \in DOMAIN calls :
                      calls[i].op = "ListPolicyVersions" /\ calls[i].arg = off }
    IN  IF before # {}
          THEN { calls[MinOf(before)].resp }
          ELSE {ErrResp} \cup
               { OkResp(d) : d \in { p \in VersionPagesFor(entry) :
                                       off >= MaxPages * pageSize => p.len < pageSize } }

ListPolicyVersionsCalls == SelectSeq(calls, LAMBDA c : c.op = "ListPolicyVersions")

\* a resolver that keeps the greatest version of the current page only
TrackVersionOfPage(versions, ver) ==
    MaxOf({ versions[i].Version : i \in DOMAIN versions })

\* for _, v := range versions { if v.Version > version { version = v.Version } }
TrackVersion(versions, ver) ==
    MaxOf({ver} \cup { versions[i].Version : i \in DOMAIN versions })

\* a resolver without the check for an empty page
IsEmptyPageNever(versions) == FALSE

\* if len(versions) == 0
IsEmptyPage(versions) == Len(versions) = 0

NoVersionsError == NewError("no policy versions found for given policy")

ErMatchRule == [Type |-> "ER", Name |-> "some rule", OriginID |-> ""]
AlbMatchRule(origin) == [Type |-> "ALB", Name |-> "some rule", OriginID |-> origin]

\* the bodies GetPolicyVersion may return for a version
PolicyVersionBodies(policyID, ver, ruleSets) ==
    { [PolicyID |-> policyID, Version |-> ver,
       Description |-> "version description",
       MatchRuleFormat |-> "1.0", MatchRules |-> r] : r \in ruleSets }

ResolverRuleSets == { <<ErMatchRule>> }

\* the match rules of the version bodies of an ALB policy: one origin; two
\* origins, one of them twice, and a rule without origin; a rule of another
\* type among them; no rule
AlbRuleSets ==
    { <<AlbMatchRule("origin_1")>>,
      <<AlbMatchRule("origin_1"), AlbMatchRule(""),
        AlbMatchRule("origin_2"), AlbMatchRule("origin_1")>>,
      <<AlbMatchRule("origin_1"), ErMatchRule>>,
      <<>> }

\* the match rules GetPolicyVersion may return
RuleSetsFor(e) ==
    IF e = "createPolicy" /\ findRes[1].policy[1].CloudletCode = "ALB"
      THEN AlbRuleSets
      ELSE ResolverRuleSets


\* policyID argument of the resolver
PolicyIDArg == IF entry = "createPolicy" THEN findRes[1].policy[1].PolicyID ELSE 123

\* the older copy: the loop has no offset += pageSize
SameOffset(off) == off

\* what the running copy of the resolver does to offset after a full page
AdvanceOffset(self, off) ==
    IF self = "getLatestPolicyVersionLegacy" THEN SameOffset(off) ELSE NextOffset(off)

\* One turn of the loop of getLatestPolicyVersion: one ListPolicyVersions
\* request.
VersionLoop(self, returnTo) ==
    /\ pc = self
    /\ Len(ListPolicyVersionsCalls) < MaxCalls
    /\ \E resp \in ListPolicyVersionsResponses(offset) :
         /\ calls' = Append(calls, [op |-> "ListPolicyVersions", arg |-> offset, resp |-> resp])
         /\ IF resp.err
              THEN /\ verRes' = Some([policyVersion |-> Nil, err |-> Some(ApiError)])
                   /\ pc' = returnTo
                   /\ UNCHANGED <<offset, version>>
              ELSE LET versions == VersionPage(resp.page, PolicyIDArg)
                   IN  IF IsEmptyPage(versions)
                         THEN /\ verRes' = Some([policyVersion |-> Nil,
                                                 err |-> Some(NoVersionsError)])
                              /\ pc' = returnTo
                              /\ UNCHANGED <<offset, version>>
                         ELSE /\ version' = TrackVersion(versions, version)
                              /\ UNCHANGED verRes
                              /\ IF IsLastPage(versions)
                                   THEN /\ pc' = "GetPolicyVersion"
                                        /\ UNCHANGED offset
                                   ELSE /\ offset' = AdvanceOffset(self, offset)
                                        /\ UNCHANGED pc
    /\ UNCHANGED <<entry, args, findRes, tfPolicyData, alb, retErr>>
    /\ UNCHANGED outsideCloudlets

\* the copy of part_002: offset += pageSize
getLatestPolicyVersion ==
    VersionLoop("getLatestPolicyVersion", ReturnTo("createPolicy_139"))

\* the copy of the older package
getLatestPolicyVersionLegacy ==
    VersionLoop("getLatestPolicyVersionLegacy", "done")

\* client.GetPolicyVersion and the return of getLatestPolicyVersion
GetPolicyVersion ==
    /\ pc = "GetPolicyVersion"
    /\ \E resp \in {ErrResp} \cup
                   { [err |-> FALSE, body |-> b] :
                       b \in PolicyVersionBodies(PolicyIDArg, version, RuleSetsFor(entry)) } :
         /\ calls' = Append(calls, [op |-> "GetPolicyVersion", arg |-> version, resp |-> resp])
         /\ verRes' = IF resp.err
                        THEN Some([policyVersion |-> Nil, err |-> Some(ApiError)])
                        ELSE Some([policyVersion |-> Some(resp.body), err |-> Nil])
         /\ pc' = ReturnTo("createPolicy_139")
    /\ UNCHANGED <<entry, args, offset, findRes, version, tfPolicyData, alb, retErr>>
    /\ UNCHANGED outsideCloudlets

(***************************************************************************)
(* The resolver called on its own, as its unit test calls it, in both      *)
(* copies of the package.                                                  *)
(***************************************************************************)
InitVersion ==
    /\ entry \in {"getLatestPolicyVersion", "getLatestPolicyVersionLegacy"}
    /\ pc = entry
    /\ InitCommon

NextVersion == getLatestPolicyVersion \/ getLatestPolicyVersionLegacy \/ GetPolicyVersion

SpecVersion == InitVersion /\ [][NextVersion]_vars

(***************************************************************************)
(* Claims about the finder.                                                *)
(***************************************************************************)
ListPoliciesCalls == SelectSeq(calls, LAMBDA c : c.op = "ListPolicies")

FullNoMatch(resp) ==
    ~resp.err /\ resp.page.len = pageSize /\ resp.page.hits = {}

NoMatch(resp) == ~resp.err /\ resp.page.hits = {}

HasMatch(resp) == ~resp.err /\ resp.page.hits # {}

\* C1: when pages 1..k-1 are full and hold no entry named as the target and
\* page k holds one, the finder has made exactly k ListPolicies requests, at
\* offsets 0, pageSize, ..., (k-1)*pageSize, and has returned the first entry
\* of page k with that name, wherever it stands in the page.
C1_FindsFirstMatchOnPageK ==
    LET L == ListPoliciesCalls
    IN  \A k \in 1..Len(L) :
          ((\A i \in 1..(k - 1) : FullNoMatch(L[i].resp)) /\ HasMatch(L[k].resp))
          => /\ Len(L) = k
             /\ \A i \in 1..k : L[i].arg = (i - 1) * pageSize
             /\ findRes =
                  Some([policy |->
                          Some(PolicyPage(L[k].resp.page, (k - 1) * pageSize,
                                          args.policyName)[MinOf(L[k].resp.page.hits)]),
                        err |-> Nil])

\* the target is found on the second page, in the middle of it, after an
\* entry whose name differs by case only and before another entry of that name
C1_Witness ==
    /\ entry \in {"findPolicyByName", "findPolicy"}
    /\ pc = "done"
    /\ Len(calls) = 2
    /\ HasMatch(calls[2].resp)
    /\ calls[2].resp.page.hits = {500, 1000}
    /\ calls[2].resp.page.near = {1}
    /\ findRes[1].policy[1].PolicyID = 1500

\* C2: once a page shorter than pageSize (an empty one included) has been
\* returned and no fetched page holds an entry named as the target, the
\* finder has stopped: that request is its last, it returned the error
\* "policy does not exist" and no policy; and on a listing with at most
\* MaxPages full pages it never makes more than MaxPages + 1 requests.
C2_StopsOnShortPage ==
    LET L == ListPoliciesCalls
    IN  /\ \A k \in 1..Len(L) :
             ((\A i \in 1..k : NoMatch(L[i].resp)) /\ L[k].resp.page.len < pageSize)
             => /\ Len(L) = k
                /\ pc # "findPolicyByName" /\ pc # "findPolicy"
                /\ findRes = Some([policy |-> Nil,
                                   err |-> Some(NotFoundError(args.policyName))])
        /\ Len(L) <= MaxPages + 1
        /\ (Len(L) = MaxPages + 1 => findRes # Nil)

\* two full pages without the target, then a page of 999 entries without it
C2_Witness ==
    /\ entry \in {"findPolicyByName", "findPolicy"}
    /\ pc = "done"
    /\ Len(calls) = 3
    /\ NoMatch(calls[3].resp)
    /\ calls[3].resp.page.len = pageSize - 1
    /\ findRes[1].policy = Nil

(***************************************************************************)
(* Claims about the latest-version resolver.                               *)
(***************************************************************************)
\* the positions in `calls` of the requests of one kind
CallsOf(op) == { i \in DOMAIN calls : calls[i].op = op }

\* the greatest version on the pages the ListPolicyVersions requests before
\* position n returned (a page of shape d holds d.v and zeros)
MaxVersionFetchedBefore(n) ==
    MaxOf({0} \cup { calls[i].resp.page.v :
                       i \in { j \in CallsOf("ListPolicyVersions") :
                                 j < n /\ ~calls[j].resp.err } })

\* C3: the version asked for in GetPolicyVersion is the greatest version of
\* all the version pages fetched; there is one GetPolicyVersion request, it
\* comes after every ListPolicyVersions request, and its body is what the
\* resolver returns.
C3_FetchesMaxOfAllPages ==
    \A n \in CallsOf("GetPolicyVersion") :
        /\ calls[n].arg = MaxVersionFetchedBefore(n)
        /\ CallsOf("GetPolicyVersion") = {n}
        /\ \A i \in CallsOf("ListPolicyVersions") : i < n
        /\ CallsOf("ListPolicyVersions") # {}
        /\ (~calls[n].resp.err =>
              verRes = Some([policyVersion |-> Some(calls[n].resp.body), err |-> Nil]))

\* three pages were listed, the greatest version stood first on the first
\* page, and the body of that version was fetched and returned
C3_Witness ==
    /\ entry = "getLatestPolicyVersion"
    /\ pc = "done"
    /\ Len(calls) = 4
    /\ calls[1].resp.page.v = 3 /\ calls[1].resp.page.at = 1
    /\ calls[2].resp.page.v = 1
    /\ calls[3].resp.page.v = 2 /\ calls[3].resp.page.len = pageSize - 1
    /\ calls[4].op = "GetPolicyVersion" /\ calls[4].arg = 3
    /\ verRes[1].policyVersion # Nil
    /\ verRes[1].policyVersion[1].Version = 3

RECURSIVE SumOfLens(_)
SumOfLens(L) ==
    IF L = <<>> THEN 0
    ELSE (IF Head(L).resp.err THEN 0 ELSE Head(L).resp.page.len) + SumOfLens(Tail(L))

\* C4: in every copy of getLatestPolicyVersion the i-th ListPolicyVersions
\* request is made at offset (i-1)*pageSize, so no offset is asked for twice
\* and a list of N versions takes at most N \div pageSize + 1 requests.
C4_ResolverPaginatesLikeFinder ==
    LET L == ListPolicyVersionsCalls
    IN  /\ \A i \in 1..Len(L) : L[i].arg = (i - 1) * pageSize
        /\ \A i, j \in 1..Len(L) : i # j => L[i].arg # L[j].arg
        /\ Len(L) <= SumOfLens(L) \div pageSize + 1

\* C5: when a ListPolicyVersions request fails, or the version list is
\* empty, the resolver returns an error and no version and has made no
\* GetPolicyVersion request; when the GetPolicyVersion request fails it
\* returns an error and no version; the failing request is in each case the
\* last request made.
C5_ResolverFailsWithoutRetry ==
    /\ \A n \in CallsOf("ListPolicyVersions") :
         (calls[n].resp.err \/ (calls[n].arg = 0 /\ calls[n].resp.page.len = 0))
         => /\ n = Len(calls)
            /\ CallsOf("GetPolicyVersion") = {}
            /\ verRes # Nil
            /\ verRes[1].policyVersion = Nil
            /\ verRes[1].err # Nil
            /\ pc \notin {"getLatestPolicyVersion", "getLatestPolicyVersionLegacy",
                          "GetPolicyVersion"}
    /\ \A n \in CallsOf("GetPolicyVersion") :
         calls[n].resp.err
         => /\ n = Len(calls)
            /\ verRes # Nil
            /\ verRes[1].policyVersion = Nil
            /\ verRes[1].err # Nil
            /\ pc # "GetPolicyVersion"

\* the version list turned out empty on the first request
C5_Witness ==
    /\ entry = "getLatestPolicyVersion"
    /\ pc = "done"
    /\ Len(calls) = 1
    /\ ~calls[1].resp.err
    /\ calls[1].resp.page.len = 0
    /\ verRes = Some([policyVersion |-> Nil, err |-> Some(NoVersionsError)])

(***************************************************************************)
(* getActiveVersionAndProperties, in both copies of the package.           *)
(***************************************************************************)
\* bound: a policy has at most MaxActivations activation entries
MaxActivations == 3

NetworkStaging == "staging"
NetworkProduction == "prod"

Networks == {NetworkStaging, NetworkProduction}
PropertyNames == {"prp_0", "prp_1"}
ActivationVersions == 1..2

Activation(network, ver, property) ==
    [Network |-> network,
     PolicyInfo |-> [Version |-> ver],
     PropertyInfo |-> [Name |-> property]]

ActivationEntries ==
    { Activation(n, v, p) : n \in Networks, v \in ActivationVersions, p \in PropertyNames }

ActivationLists ==
    UNION { [1..n -> ActivationEntries] : n \in 0..MaxActivations }

\* an aggregator that does not look at the network of an entry
OnAnyNetwork(activation, network) == TRUE

\* if activation.Network != network { continue }
OnNetwork(activation, network) == activation.Network = network

\* The loop over policy.Activations from entry i on; acc holds the locals
\* version and associatedProperties (<<>> is the nil slice).
RECURSIVE RangeActivations(_, _, _, _)
RangeActivations(activations, network, i, acc) ==
    IF i > Len(activations) THEN acc
    ELSE RangeActivations(activations, network, i + 1,
           IF ~OnNetwork(activations[i], network) THEN acc
           ELSE [version |-> activations[i].PolicyInfo.Version,
                 associatedProperties |->
                     Append(acc.associatedProperties, activations[i].PropertyInfo.Name)])

getActiveVersionAndProperties(policy, network) ==
    LET r == RangeActivations(policy.Activations, network, 1,
                              [version |-> 0, associatedProperties |-> Nil])
    IN  IF r.associatedProperties = Nil THEN Nil
        ELSE Some([PolicyID |-> policy.PolicyID,
                   Version |-> r.version,
                   Properties |-> r.associatedProperties])

\* the older copy: the record carries the network as well
getActiveVersionAndPropertiesLegacy(policy, network) ==
    LET r == RangeActivations(policy.Activations, network, 1,
                              [version |-> 0, associatedProperties |-> Nil])
    IN  IF r.associatedProperties = Nil THEN Nil
        ELSE Some([PolicyID |-> policy.PolicyID,
                   Network |-> network,
                   Version |-> r.version,
                   Properties |-> r.associatedProperties])

\* no export run
IdleCloudlets ==
    /\ entry = "none"
    /\ pc = "done"
    /\ args = [policyName |-> "", section |-> ""]
    /\ offset = 0
    /\ calls = <<>>
    /\ findRes = Nil
    /\ version = 0
    /\ verRes = Nil
    /\ tfPolicyData = Nil
    /\ alb = NoAlb
    /\ retErr = Nil

InitAgg ==
    /\ IdleCloudlets
    /\ IdleTmpl
    /\ IdleHelpers
    /\ aggPolicy \in { Some([PolicyID |-> 2, Name |-> "test_policy",
                             Description |-> "test_policy description",
                             GroupID |-> 234, CloudletCode |-> "ER",
                             Activations |-> a]) : a \in ActivationLists }
    /\ aggNetwork \in Networks
    /\ aggRes = Nil

CallAggregator ==
    /\ aggRes = Nil
    /\ aggRes' = Some(getActiveVersionAndProperties(aggPolicy[1], aggNetwork))
    /\ UNCHANGED <<aggPolicy, aggNetwork>>
    /\ UNCHANGED outsideAgg

CallAggregatorLegacy ==
    /\ aggRes = Nil
    /\ aggRes' = Some(getActiveVersionAndPropertiesLegacy(aggPolicy[1], aggNetwork))
    /\ UNCHANGED <<aggPolicy, aggNetwork>>
    /\ UNCHANGED outsideAgg

NextAgg == CallAggregator \/ CallAggregatorLegacy

SpecAgg == InitAgg /\ [][NextAgg]_vars

(***************************************************************************)
(* Claims about the activation aggregator.                                 *)
(***************************************************************************)
\* the entries of the policy on the requested network, in list order
EntriesOnNetwork ==
    SelectSeq(aggPolicy[1].Activations, LAMBDA a : a.Network = aggNetwork)

\* C6: the aggregator returns nil exactly when the policy has no activation
\* entry on the network; otherwise it returns one record whose Properties
\* are the property names of the entries on that network, in list order
\* with duplicates kept, and whose PolicyID is that of the policy.
C6_AggregatesNetworkEntries ==
    aggRes # Nil =>
        LET r == aggRes[1]
            E == EntriesOnNetwork
        IN  /\ (r = Nil) <=> (E = <<>>)
            /\ r # Nil =>
                 /\ Len(r) = 1
                 /\ r[1].PolicyID = aggPolicy[1].PolicyID
                 /\ r[1].Properties = [i \in 1..Len(E) |-> E[i].PropertyInfo.Name]

\* two entries on staging naming the same property, with an entry on prod
\* between them, folded into one staging record
C6_Witness ==
    /\ aggRes # Nil
    /\ aggNetwork = NetworkStaging
    /\ aggPolicy[1].Activations =
         << Activation(NetworkStaging, 2, "prp_0"),
            Activation(NetworkProduction, 1, "prp_1"),
            Activation(NetworkStaging, 2, "prp_0") >>
    /\ aggRes[1] # Nil
    /\ aggRes[1][1].Properties = <<"prp_0", "prp_0">>

\* C7: the record of a network carries the greatest PolicyInfo.Version of
\* the entries on that network, whatever the order of the entries.
C7_RecordCarriesGreatestVersion ==
    (aggRes # Nil /\ aggRes[1] # Nil) =>
        aggRes[1][1].Version =
            MaxOf({ EntriesOnNetwork[i].PolicyInfo.Version :
                      i \in 1..Len(EntriesOnNetwork) })

(***************************************************************************)
(* The load balancer data of an ALB policy.                                *)
(***************************************************************************)
ErrFetchingPolicy == "ErrFetchingPolicy"
ErrFetchingVersion == "ErrFetchingVersion"
ErrCloudletTypeNotSupported == "ErrCloudletTypeNotSupported"
ErrSavingFiles == "ErrSavingFiles"

\* a type assertion whose `ok` is never looked at
NotAlbRulesIgnored(rules) == {}

\* the positions of the rules that are not a *MatchRuleALB
NotAlbRules(rules) == { i \in DOMAIN rules : rules[i].Type # "ALB" }

\* a getOriginIDs without the test originID != ""
getOriginIDsKeepingEmpty(rules) ==
    IF NotAlbRules(rules) # {}
      THEN [ids |-> {}, err |-> Some(NewError(<<"match rule type is not a MatchRuleALB",
                                              rules[MinOf(NotAlbRules(rules))].Type>>))]
      ELSE [ids |-> { rules[i].OriginID : i \in DOMAIN rules }, err |-> Nil]

\* getOriginIDs: the keys of the map originIDs, or the error of the first
\* rule of another type
getOriginIDs(rules) ==
    IF NotAlbRules(rules) # {}
      THEN [ids |-> {}, err |-> Some(NewError(<<"match rule type is not a MatchRuleALB",
                                              rules[MinOf(NotAlbRules(rules))].Type>>))]
      ELSE [ids |-> { rules[i].OriginID : i \in DOMAIN rules } \ {""}, err |-> Nil]

\* the orders in which `for originID := range originIDs` may visit a map
MapOrders(S) ==
    { q \in [1..Cardinality(S) -> S] : \A i, j \in DOMAIN q : i # j => q[i] # q[j] }

LbNetworkProduction == "PRODUCTION"
LbNetworkStaging == "STAGING"

LoadBalancerVersion(origin, ver) == [OriginID |-> origin, Version |-> ver]

\* the version lists ListLoadBalancerVersions may return for an origin
LoadBalancerVersionLists(origin) ==
    { <<>>,
      <<LoadBalancerVersion(origin, 1), LoadBalancerVersion(origin, 2)>>,
      <<LoadBalancerVersion(origin, 2), LoadBalancerVersion(origin, 1)>> }

LoadBalancerActivation(origin, network, ver, date) ==
    [OriginID |-> origin, Network |-> network, Version |-> ver,
     ActivatedDate |-> date, Status |-> "active"]

\* The activation lists ListLoadBalancerActivations may return for an
\* origin; ActivatedDate is the rank of the timestamp in timestamp order.
LoadBalancerActivationLists(origin) ==
    { <<>>,
      <<LoadBalancerActivation(origin, LbNetworkProduction, 2, 10),
        LoadBalancerActivation(origin, LbNetworkStaging, 2, 20)>>,
      <<LoadBalancerActivation(origin, LbNetworkStaging, 1, 10)>>,
      <<LoadBalancerActivation(origin, LbNetworkStaging, 1, 10),
        LoadBalancerActivation(origin, LbNetworkProduction, 1, 10),
        LoadBalancerActivation(origin, LbNetworkProduction, 2, 20)>> }

\* the listing of activations does not change during a run
ListLoadBalancerActivationsResponses(origin) ==
    LET before == { i \in DOMAIN calls :
                      calls[i].op = "ListLoadBalancerActivations" /\ calls[i].arg = origin }
    IN  IF before # {}
          THEN { calls[MinOf(before)].resp, ErrResp }
          ELSE {ErrResp} \cup
               { [err |-> FALSE, list |-> l] : l \in LoadBalancerActivationLists(origin) }

\* a loop that keeps the version listed last
LastListedVersion(versions, i, acc) ==
    IF Len(versions) = 0 THEN acc
    ELSE [ver |-> versions[Len(versions)].Version,
          loadBalancerVersion |-> Some(versions[Len(versions)])]

\* for _, version := range versions { if version.Version > ver { ... } }
RECURSIVE RangeLoadBalancerVersions(_, _, _)
RangeLoadBalancerVersions(versions, i, acc) ==
    IF i > Len(versions) THEN acc
    ELSE RangeLoadBalancerVersions(versions, i + 1,
           IF versions[i].Version > acc.ver
             THEN [ver |-> versions[i].Version, loadBalancerVersion |-> Some(versions[i])]
             ELSE acc)

\* One turn of the loop of getLoadBalancers: one ListLoadBalancerVersions
\* request.  After the last origin the list goes to tfPolicyData.
getLoadBalancers ==
    /\ pc = "getLoadBalancers"
    /\ LET originID == alb.originIDs[alb.i]
       IN  \E resp \in {ErrResp} \cup
                       { [err |-> FALSE, list |-> l] : l \in LoadBalancerVersionLists(originID) } :
             /\ calls' = Append(calls, [op |-> "ListLoadBalancerVersions",
                                        arg |-> originID, resp |-> resp])
             /\ IF resp.err
                  THEN /\ retErr' = Some(Some(WrapError(ErrFetchingVersion, ApiError)))
                       /\ pc' = "done"
                       /\ UNCHANGED <<alb, tfPolicyData>>
                  ELSE LET r == RangeLoadBalancerVersions(resp.list, 1,
                                    [ver |-> 0, loadBalancerVersion |-> Nil])
                           loadBalancers == IF r.ver > 0
                                              THEN alb.loadBalancers \o r.loadBalancerVersion
                                              ELSE alb.loadBalancers
                       IN  /\ UNCHANGED retErr
                           /\ IF alb.i < Len(alb.originIDs)
                                THEN /\ alb' = [alb EXCEPT !.i = alb.i + 1,
                                                           !.loadBalancers = loadBalancers]
                                     /\ UNCHANGED <<pc, tfPolicyData>>
                                ELSE /\ alb' = [alb EXCEPT !.i = 1,
                                                           !.network = LbNetworkProduction,
                                                           !.loadBalancers = loadBalancers]
                                     /\ tfPolicyData' =
                                          Some([tfPolicyData[1] EXCEPT
                                                  !.LoadBalancers = Some(loadBalancers)])
                                     /\ pc' = "getLoadBalancerActivations"
    /\ UNCHANGED <<entry, args, offset, findRes, version, verRes>>
    /\ UNCHANGED outsideCloudlets

\* sort.Slice sorts a slice as short as the filtered lists here (at most 12
\* elements) by insertion: InsertionSort below.
Swap(s, j, k) == [s EXCEPT ![j] = s[k], ![k] = s[j]]

\* the less function of getApplicationLoadBalancerActivation: it reads the
\* unfiltered list `activations` at the positions it is asked about
LessActivated(activations, j, k) ==
    activations[j].ActivatedDate > activations[k].ActivatedDate

RECURSIVE InsertDown(_, _, _)
InsertDown(s, activations, j) ==
    IF j > 1 /\ LessActivated(activations, j, j - 1)
      THEN InsertDown(Swap(s, j, j - 1), activations, j - 1)
      ELSE s

RECURSIVE InsertionSort(_, _, _)
InsertionSort(s, activations, i) ==
    IF i > Len(s) THEN s
    ELSE InsertionSort(InsertDown(s, activations, i), activations, i + 1)

\* the first listed activation, whatever its network
FirstListedActivation(activations, network) ==
    IF Len(activations) > 0 THEN Some(activations[1]) ELSE Nil

\* getApplicationLoadBalancerActivation after the request: nil or the first
\* of the filtered and sorted activations
NewestActivation(activations, network) ==
    LET filteredActivations == SelectSeq(activations, LAMBDA act : act.Network = network)
        sorted == InsertionSort(filteredActivations, activations, 2)
    IN  IF Len(sorted) > 0 THEN Some(sorted[1]) ELSE Nil

\* One call of getApplicationLoadBalancerActivation in the loop of
\* getLoadBalancerActivations: production first, then staging, per origin.
getLoadBalancerActivations ==
    /\ pc = "getLoadBalancerActivations"
    /\ LET originID == alb.originIDs[alb.i]
       IN  \E resp \in ListLoadBalancerActivationsResponses(originID) :
             /\ calls' = Append(calls, [op |-> "ListLoadBalancerActivations",
                                        arg |-> originID, resp |-> resp])
             /\ IF resp.err
                  THEN /\ retErr' = Some(Some(WrapError(ErrFetchingVersion, ApiError)))
                       /\ pc' = "done"
                       /\ UNCHANGED <<alb, tfPolicyData>>
                  ELSE LET activations == alb.activations \o
                                          NewestActivation(resp.list, alb.network)
                       IN  /\ UNCHANGED retErr
                           /\ IF alb.network = LbNetworkProduction
                                THEN /\ alb' = [alb EXCEPT !.network = LbNetworkStaging,
                                                           !.activations = activations]
                                     /\ UNCHANGED <<pc, tfPolicyData>>
                                ELSE IF alb.i < Len(alb.originIDs)
                                  THEN /\ alb' = [alb EXCEPT !.i = alb.i + 1,
                                                             !.network = LbNetworkProduction,
                                                             !.activations = activations]
                                       /\ UNCHANGED <<pc, tfPolicyData>>
                                  ELSE /\ alb' = [alb EXCEPT !.activations = activations]
                                       /\ tfPolicyData' =
                                            Some([tfPolicyData[1] EXCEPT
                                                    !.LoadBalancerActivations = Some(activations)])
                                       /\ pc' = "ProcessTemplates"
    /\ UNCHANGED <<entry, args, offset, findRes, version, verRes>>
    /\ UNCHANGED outsideCloudlets

(***************************************************************************)
(* createPolicy.                                                           *)
(***************************************************************************)
\* a createPolicy that hands the error of the finder on as it is
FetchingPolicyErrorBare(err) == err

\* fmt.Errorf("%w: %s", ErrFetchingPolicy, err)
FetchingPolicyError(err) == WrapError(ErrFetchingPolicy, err)

\* a snapshot that leaves the group of the policy out
NewTFPolicyDataWithoutGroup(section, policy) ==
    [Section |-> section,
     Name |-> policy.Name,
     CloudletCode |-> policy.CloudletCode,
     GroupID |-> 0,
     Description |-> "",
     MatchRuleFormat |-> "",
     MatchRules |-> Nil,
     PolicyActivations |-> Nil,
     LoadBalancers |-> Nil,
     LoadBalancerActivations |-> Nil]

\* tfPolicyData := TFPolicyData{Section: ..., Name: ..., CloudletCode: ...,
\* GroupID: ...}: the other fields have their zero value
NewTFPolicyData(section, policy) ==
    [Section |-> section,
     Name |-> policy.Name,
     CloudletCode |-> policy.CloudletCode,
     GroupID |-> policy.GroupID,
     Description |-> "",
     MatchRuleFormat |-> "",
     MatchRules |-> Nil,
     PolicyActivations |-> Nil,
     LoadBalancers |-> Nil,
     LoadBalancerActivations |-> Nil]

\* lines 121-136: the result of the finder is examined, the cloudlet code is
\* checked and tfPolicyData is started
createPolicyCheckPolicy ==
    /\ pc = "createPolicy_122"
    /\ IF findRes[1].err # Nil
         THEN /\ retErr' = Some(Some(FetchingPolicyError(findRes[1].err[1])))
              /\ pc' = "done"
              /\ UNCHANGED <<tfPolicyData, offset, version>>
         ELSE LET policy == findRes[1].policy[1]
              IN  IF policy.CloudletCode \notin supportedCloudlets
                    THEN /\ retErr' = Some(Some(WrapError(ErrCloudletTypeNotSupported,
                                                          NewError(policy.CloudletCode))))
                         /\ pc' = "done"
                         /\ UNCHANGED <<tfPolicyData, offset, version>>
                    ELSE /\ tfPolicyData' = Some(NewTFPolicyData(args.section, policy))
                         \* getLatestPolicyVersion starts: its locals
                         /\ offset' = 0
                         /\ version' = 0
                         /\ pc' = "getLatestPolicyVersion"
                         /\ UNCHANGED retErr
    /\ UNCHANGED <<entry, args, calls, findRes, verRes, alb>>
    /\ UNCHANGED outsideCloudlets

\* a map that takes the staging record only
PolicyActivationsStagingOnly(policy) ==
    LET activationStaging == getActiveVersionAndProperties(policy, NetworkStaging)
    IN  [ k \in (IF activationStaging # Nil THEN {"staging"} ELSE {}) |-> activationStaging[1] ]

\* make(map[string]TFPolicyActivationData) and the two assignments to it
PolicyActivationsOf(policy) ==
    LET activationStaging == getActiveVersionAndProperties(policy, NetworkStaging)
        activationProd == getActiveVersionAndProperties(policy, NetworkProduction)
        keys == (IF activationStaging # Nil THEN {"staging"} ELSE {}) \cup
                (IF activationProd # Nil THEN {"prod"} ELSE {})
    IN  [ k \in keys |-> IF k = "staging" THEN activationStaging[1] ELSE activationProd[1] ]

\* a createPolicy that takes no policy for an ALB policy
NeverAlb(data) == FALSE

\* if tfPolicyData.CloudletCode == "ALB"
IsAlb(data) == data.CloudletCode = "ALB"

\* lines 139-160: the result of the resolver is examined, the version body
\* and the activations go to tfPolicyData, and for an ALB policy the origin
\* IDs are collected
createPolicyAssemble ==
    /\ pc = "createPolicy_139"
    /\ IF verRes[1].err # Nil
         THEN /\ retErr' = Some(Some(WrapError(ErrFetchingVersion, verRes[1].err[1])))
              /\ pc' = "done"
              /\ UNCHANGED <<tfPolicyData, alb>>
         ELSE LET policy == findRes[1].policy[1]
                  policyVersion == verRes[1].policyVersion[1]
                  data == [tfPolicyData[1] EXCEPT
                             !.Description = policyVersion.Description,
                             !.MatchRuleFormat = policyVersion.MatchRuleFormat,
                             !.MatchRules = Some(policyVersion.MatchRules),
                             !.PolicyActivations = Some(PolicyActivationsOf(policy))]
              IN  IF ~IsAlb(data)
                    THEN /\ tfPolicyData' = Some(data)
                         /\ pc' = "ProcessTemplates"
                         /\ UNCHANGED <<retErr, alb>>
                    ELSE LET o == getOriginIDs(policyVersion.MatchRules)
                         IN  IF o.err # Nil
                               THEN /\ retErr' = Some(Some(WrapError(ErrFetchingVersion, o.err[1])))
                                    /\ pc' = "done"
                                    /\ tfPolicyData' = Some(data)
                                    /\ UNCHANGED alb
                               ELSE \E originIDs \in MapOrders(o.ids) :
                                      /\ UNCHANGED retErr
                                      /\ IF originIDs = <<>>
                                           \* neither loop has a turn: two empty lists
                                           THEN /\ tfPolicyData' =
                                                     Some([data EXCEPT
                                                             !.LoadBalancers = Some(<<>>),
                                                             !.LoadBalancerActivations = Some(<<>>)])
                                                /\ pc' = "ProcessTemplates"
                                                /\ UNCHANGED alb
                                           ELSE /\ tfPolicyData' = Some(data)
                                                /\ alb' = [originIDs |-> originIDs, i |-> 1,
                                                           network |-> "",
                                                           loadBalancers |-> <<>>,
                                                           activations |-> <<>>]
                                                /\ pc' = "getLoadBalancers"
    /\ UNCHANGED <<entry, args, offset, calls, findRes, version, verRes>>
    /\ UNCHANGED outsideCloudlets

\* the error of the template processor
SavingFilesError == [is |-> {ErrSavingFiles}, msg |-> <<ErrSavingFiles>>]

\* lines 174-183: templateProcessor.ProcessTemplates(tfPolicyData) and the
\* return of createPolicy
ProcessTemplates ==
    /\ pc = "ProcessTemplates"
    /\ \E resp \in {[err |-> TRUE], [err |-> FALSE]} :
         /\ calls' = Append(calls, [op |-> "ProcessTemplates",
                                    arg |-> tfPolicyData[1], resp |-> resp])
         /\ retErr' = IF resp.err THEN Some(Some(SavingFilesError)) ELSE Some(Nil)
    /\ pc' = "done"
    /\ UNCHANGED <<entry, args, offset, findRes, version, verRes, tfPolicyData, alb>>
    /\ UNCHANGED outsideCloudlets

InitCreate ==
    /\ entry = "createPolicy"
    /\ pc = "findPolicyByName"
    /\ InitCommon

NextCreate ==
    \/ findPolicyByName
    \/ createPolicyCheckPolicy
    \/ getLatestPolicyVersion
    \/ GetPolicyVersion
    \/ createPolicyAssemble
    \/ getLoadBalancers
    \/ getLoadBalancerActivations
    \/ ProcessTemplates

SpecCreate == InitCreate /\ [][NextCreate]_vars

(***************************************************************************)
(* Claims about the errors of createPolicy.                                *)
(***************************************************************************)
\* some request of one of the kinds was answered by an error
SomeCallFailed(ops) == \E i \in DOMAIN calls : calls[i].op \in ops /\ calls[i].resp.err

\* the listed policy that carries the target name, if the listing shows one
ListedTargets ==
    { calls[i].resp.page.prof :
        i \in { j \in CallsOf("ListPolicies") : HasMatch(calls[j].resp) } }

\* the listing was read to its end without error and without the target
TargetAbsent ==
    /\ ~SomeCallFailed({"ListPolicies"})
    /\ ListedTargets = {}

Returned == entry = "createPolicy" /\ pc = "done"

\* C8: createPolicy returns an error matching ErrFetchingPolicy when the
\* policy listing fails or the named policy is absent; one matching
\* ErrCloudletTypeNotSupported and carrying the code when the code of the
\* policy found is none of ALB, AP, AS, CD, ER, FR, IG, VP; one matching
\* ErrFetchingVersion when a version listing, the fetch of the latest
\* version or a load balancer listing fails; the error of the processor
\* when ProcessTemplates fails; and nil only when every step succeeded.
C8_ErrorTaxonomy ==
    /\ (entry = "createPolicy" /\ pc # "done") => retErr = Nil
    /\ Returned =>
         /\ retErr # Nil
         /\ (SomeCallFailed({"ListPolicies"}) \/ TargetAbsent)
              => (retErr[1] # Nil /\ ErrorsIs(retErr[1][1], "ErrFetchingPolicy"))
         /\ \A t \in ListedTargets :
              t.CloudletCode \notin {"ALB", "AP", "AS", "CD", "ER", "FR", "IG", "VP"}
              => /\ retErr[1] # Nil
                 /\ ErrorsIs(retErr[1][1], "ErrCloudletTypeNotSupported")
                 /\ retErr[1][1].msg = <<"ErrCloudletTypeNotSupported", t.CloudletCode>>
         /\ SomeCallFailed({"ListPolicyVersions", "GetPolicyVersion",
                            "ListLoadBalancerVersions", "ListLoadBalancerActivations"})
              => (retErr[1] # Nil /\ ErrorsIs(retErr[1][1], "ErrFetchingVersion"))
         /\ SomeCallFailed({"ProcessTemplates"})
              => (retErr[1] # Nil /\ ErrorsIs(retErr[1][1], "ErrSavingFiles")
                  /\ retErr[1][1] = SavingFilesError)
         /\ retErr[1] = Nil
              => /\ \A i \in DOMAIN calls : ~calls[i].resp.err
                 /\ ListedTargets # {}
                 /\ Cardinality(CallsOf("GetPolicyVersion")) = 1
                 /\ Cardinality(CallsOf("ProcessTemplates")) = 1

\* an ALB policy whose second activation listing fails
C8_Witness ==
    /\ Returned
    /\ Len(calls) >= 6
    /\ calls[Len(calls)].op = "ListLoadBalancerActivations"
    /\ calls[Len(calls)].resp.err
    /\ calls[Len(calls) - 1].op = "ListLoadBalancerActivations"
    /\ retErr[1] # Nil
    /\ ErrorsIs(retErr[1][1], "ErrFetchingVersion")

\* C9 as stated: the error returned for an absent policy is of another kind
\* than the error returned when the policy listing itself fails.
C9_NotFoundHasOwnKind ==
    (Returned /\ TargetAbsent) =>
        retErr[1][1].is # FetchingPolicyError(ApiError).is

\* C9 as amended: an absent policy and a failed policy listing both make
\* createPolicy return an error that matches ErrFetchingPolicy and no other
\* named error; the absent policy is told by the text of the error only,
\* which is that of "policy '<name>' does not exist".
C9_NotFoundIsErrFetchingPolicy ==
    /\ (Returned /\ TargetAbsent) =>
         /\ retErr[1] # Nil
         /\ retErr[1][1].is = {"ErrFetchingPolicy"}
         /\ retErr[1][1].msg = <<"ErrFetchingPolicy", <<"policy does not exist", args.policyName>>>>
    /\ (Returned /\ SomeCallFailed({"ListPolicies"})) =>
         /\ retErr[1] # Nil
         /\ retErr[1][1].is = {"ErrFetchingPolicy"}
         /\ retErr[1][1].msg = <<"ErrFetchingPolicy">> \o ApiError.msg

\* the listing ended after a full page and a page of one entry, neither
\* holding the target
C9_Witness ==
    /\ Returned
    /\ TargetAbsent
    /\ Len(calls) = 2
    /\ calls[2].resp.page.len = 1
    /\ retErr[1] # Nil

(***************************************************************************)
(* The activation resources of policy.tf.  The template policy.tmpl is     *)
(* modelled from the specification; the file it has to produce for the     *)
(* policy of the test is testdata/with_activations_and_match_rules.         *)
(***************************************************************************)
\* bound: a record of the data lists at most MaxProperties properties
MaxProperties == 2

PropertyLists == UNION { [1..n -> PropertyNames] : n \in 1..MaxProperties }

ActivationRecords ==
    { [PolicyID |-> 2, Version |-> v, Properties |-> p] :
        v \in ActivationVersions, p \in PropertyLists }

\* the PolicyActivations maps of the data handed to the template
PolicyActivationMaps ==
    UNION { [keys -> ActivationRecords] : keys \in SUBSET {"staging", "prod"} }

StagingAddress == "akamai_cloudlets_policy_activation.policy_activation_staging"

ActivationResource(name, network, record, dependsOn) ==
    [type |-> "akamai_cloudlets_policy_activation",
     name |-> name,
     policy_id |-> record.PolicyID,
     network |-> network,
     version |-> record.Version,
     associated_properties |-> record.Properties,
     depends_on |-> dependsOn]

\* policy.tmpl, the activation resources: the staging resource if the map
\* has a staging record, then the prod resource if it has a prod record,
\* depending on the staging resource if there is one
RenderPolicyActivations(activations) ==
    (IF "staging" \in DOMAIN activations
       THEN << ActivationResource("policy_activation_staging", "staging",
                                  activations["staging"], <<>>) >>
       ELSE <<>>)
    \o
    (IF "prod" \in DOMAIN activations
       THEN << ActivationResource("policy_activation_prod", "prod",
                                  activations["prod"],
                                  IF "staging" \in DOMAIN activations
                                    THEN <<StagingAddress>> ELSE <<>>) >>
       ELSE <<>>)

\* a policy.tf whose prod resource does not wait for the staging one
ExpectedPolicyTfNoDependency ==
    << [type |-> "akamai_cloudlets_policy_activation",
        name |-> "policy_activation_staging",
        policy_id |-> 2, network |-> "staging", version |-> 2,
        associated_properties |-> <<"prp_0", "prp_1">>,
        depends_on |-> <<>>],
       [type |-> "akamai_cloudlets_policy_activation",
        name |-> "policy_activation_prod",
        policy_id |-> 2, network |-> "prod", version |-> 1,
        associated_properties |-> <<"prp_0">>,
        depends_on |-> <<>>] >>

\* testdata/with_activations_and_match_rules/policy.tf, lines 24-37
ExpectedPolicyTf ==
    << [type |-> "akamai_cloudlets_policy_activation",
        name |-> "policy_activation_staging",
        policy_id |-> 2, network |-> "staging", version |-> 2,
        associated_properties |-> <<"prp_0", "prp_1">>,
        depends_on |-> <<>>],
       [type |-> "akamai_cloudlets_policy_activation",
        name |-> "policy_activation_prod",
        policy_id |-> 2, network |-> "prod", version |-> 1,
        associated_properties |-> <<"prp_0">>,
        depends_on |-> <<"akamai_cloudlets_policy_activation.policy_activation_staging">>] >>

\* the PolicyActivations of the test "policy with ER match rules and activations"
TestPolicyActivations ==
    [ k \in {"staging", "prod"} |->
        IF k = "staging"
          THEN [PolicyID |-> 2, Version |-> 2, Properties |-> <<"prp_0", "prp_1">>]
          ELSE [PolicyID |-> 2, Version |-> 1, Properties |-> <<"prp_0">>] ]

InitPolicyTmpl ==
    /\ IdleCloudlets
    /\ IdleAgg
    /\ IdleHelpers
    /\ tmplData \in { Some([PolicyActivations |-> m]) : m \in PolicyActivationMaps }
    /\ tmplOut = Nil

ExecutePolicyTmpl ==
    /\ tmplData # Nil
    /\ tmplOut = Nil
    /\ tmplOut' = Some(RenderPolicyActivations(tmplData[1].PolicyActivations))
    /\ UNCHANGED tmplData
    /\ UNCHANGED outsideTmpl

NextPolicyTmpl == ExecutePolicyTmpl

SpecPolicyTmpl == InitPolicyTmpl /\ [][NextPolicyTmpl]_vars

templateToFileSharedPath ==
    [ t \in {"policy.tmpl", "match-rules.tmpl", "load-balancer.tmpl",
             "variables.tmpl", "imports.tmpl"} |->
        CASE t = "policy.tmpl" -> "policy.tf"
          [] t = "match-rules.tmpl" -> "policy.tf"
          [] t = "load-balancer.tmpl" -> "load-balancer.tf"
          [] t = "variables.tmpl" -> "variables.tf"
          [] OTHER -> "import.sh" ]

\* templateToFile of CmdCreatePolicy, with the default tfWorkPath
templateToFile ==
    [ t \in {"policy.tmpl", "match-rules.tmpl", "load-balancer.tmpl",
             "variables.tmpl", "imports.tmpl"} |->
        CASE t = "policy.tmpl" -> "policy.tf"
          [] t = "match-rules.tmpl" -> "match-rules.tf"
          [] t = "load-balancer.tmpl" -> "load-balancer.tf"
          [] t = "variables.tmpl" -> "variables.tf"
          [] OTHER -> "import.sh" ]

\* the destination paths of a sequence of templates
TargetsOf(q) == { templateToFile[q[i]] : i \in DOMAIN q }

\* The processor is called with the map of CmdCreatePolicy.  tools.CheckFiles
\* has made sure that none of the destination files exists.  The range over
\* the map visits the templates in some order; up to two of them are broken.
InitProc ==
    /\ IdleCloudlets
    /\ IdleAgg
    /\ IdleTmpl
    /\ IdleEsc /\ IdleDns /\ IdleLba /\ IdleRuns
    /\ tmplQueue \in MapOrders(DOMAIN templateToFile)
    /\ tmplBroken \in { b \in SUBSET DOMAIN templateToFile : Cardinality(b) <= 2 }
    /\ filesWritten = {}
    /\ processErr = Nil

\* one turn of the loop over the map; the turn of the last template returns
FSProcessTemplates ==
    /\ processErr = Nil
    /\ tmplQueue # <<>>
    /\ LET templateName == Head(tmplQueue)
       IN  IF templateName \in tmplBroken
             THEN /\ processErr' = Some(Some(SavingFilesError))
                  /\ UNCHANGED <<tmplQueue, filesWritten>>
             ELSE /\ filesWritten' = filesWritten \cup {templateToFile[templateName]}
                  /\ tmplQueue' = Tail(tmplQueue)
                  /\ processErr' = IF Tail(tmplQueue) = <<>> THEN Some(Nil) ELSE Nil
    /\ UNCHANGED tmplBroken
    /\ UNCHANGED outsideProc

NextProc == FSProcessTemplates

SpecProc == InitProc /\ [][NextProc]_vars

MaxNameLen == 3

\* a letter, a digit, the two other legal characters, and two illegal ones
NameChars == {"a", "1", "_", "-", " ", "\\"}
IdentifierChars == {"a", "1", "_", "-"}

Names == UNION { [1..n -> NameChars] : n \in 0..MaxNameLen }

RECURSIVE Flatten(_)
Flatten(ss) == IF ss = <<>> THEN <<>> ELSE Head(ss) \o Flatten(Tail(ss))

\* an escaping that puts a backslash before every illegal character
escapeNameByBackslash(name) ==
    Flatten([ i \in DOMAIN name |->
                IF name[i] \in IdentifierChars THEN <<name[i]>> ELSE <<"\\", name[i]>> ])

\* every illegal character is replaced by an underscore
escapeName(name) ==
    Flatten([ i \in DOMAIN name |->
                IF name[i] \in IdentifierChars THEN <<name[i]>> ELSE <<"_">> ])

InitEsc ==
    /\ IdleCloudlets
    /\ IdleAgg
    /\ IdleTmpl
    /\ IdleProc /\ IdleDns /\ IdleLba /\ IdleRuns
    /\ escaped \in { <<name>> : name \in Names }

\* the name, or its escaped form, is escaped (once, and then once more)
CallEscapeName ==
    /\ Len(escaped) \in 1..2
    /\ escaped' = Append(escaped, escapeName(escaped[Len(escaped)]))
    /\ UNCHANGED outsideEsc

NextEsc == CallEscapeName

SpecEsc == InitEsc /\ [][NextEsc]_vars

\* C12: escaping is idempotent: for every name, the name escaped twice
\* equals the name escaped once.
C12_EscapeNameIdempotent ==
    Len(escaped) = 3 => escaped[3] = escaped[2]

\* a name with an illegal character has been escaped twice
C12_Witness ==
    /\ Len(escaped) = 3
    /\ escaped[2] # escaped[1]
    /\ \E i \in DOMAIN escaped[1] : escaped[1][i] = "\\"

(***************************************************************************)
(* The import script of a security configuration: imports.tmpl of appsec.  *)
(* The data is the exported configuration.  A block of it is kept by what  *)
(* the template asks of it: <<>> for a block that is absent (nil), a       *)
(* sequence for a list, TRUE or FALSE for a block or value that `if` finds *)
(* non-empty or empty.  An entry of a list is kept by its ID.  The answers *)
(* of the template functions getWAFMode and isStructuredRule are part of   *)
(* the data (wafMode of a policy, structured of a custom rule action).     *)
(* The output is the sequence of the import statements, each kept as the   *)
(* resource type, the policy it belongs to (0 for none), the ID of the     *)
(* entry it is made for (0 for none) and its line in the template.         *)
(***************************************************************************)
\* a list of the configuration has at most MaxEntries entries
MaxEntries == 1

IdLists == { [i \in 1..n |-> i] : n \in 0..MaxEntries }

Stmt(resource, policy, id, line) ==
    [resource |-> resource, policy |-> policy, id |-> id, line |-> line]

\* {{ range list }} statement {{ end }}
RangeStmt(list, resource, policy, line) ==
    [ i \in DOMAIN list |-> Stmt(resource, policy, list[i], line) ]

\* {{ if cond }} statement {{ end }}
IfStmt(cond, resource, policy, line) ==
    IF cond THEN <<Stmt(resource, policy, 0, line)>> ELSE <<>>

\* lines 6-16
AdvancedOptionsSection(cfg) ==
    IF cfg.AdvancedOptions = Nil THEN <<>>
    ELSE IfStmt(cfg.AdvancedOptions[1].Prefetch,
                "akamai_appsec_advanced_settings_prefetch", 0, 8)
         \o IfStmt(cfg.AdvancedOptions[1].PragmaHeader,
                   "akamai_appsec_advanced_settings_pragma_header", 0, 11)
         \o IfStmt(cfg.AdvancedOptions[1].EvasivePathMatch,
                   "akamai_appsec_advanced_settings_evasive_path_match", 0, 14)

\* lines 17-23: a custom rule is imported if it has a tag
CustomRulesSection(cfg) ==
    RangeStmt([ i \in DOMAIN SelectSeq(cfg.CustomRules, LAMBDA r : r.Tag) |->
                  SelectSeq(cfg.CustomRules, LAMBDA r : r.Tag)[i].ID ],
              "akamai_appsec_custom_rule", 0, 20)

\* lines 24-40
CustomDenySection(cfg) ==
    RangeStmt(cfg.CustomDenyList, "akamai_appsec_custom_deny", 0, 26)

MatchTargetsSection(cfg) ==
    IF cfg.MatchTargets = Nil THEN <<>>
    ELSE RangeStmt(cfg.MatchTargets[1].WebsiteTargets, "akamai_appsec_match_target", 0, 32)
         \o RangeStmt(cfg.MatchTargets[1].APITargets, "akamai_appsec_match_target", 0, 37)

\* lines 4-40
GlobalSection(cfg) ==
    <<Stmt("akamai_appsec_configuration", 0, 0, 4),
      Stmt("akamai_appsec_advanced_settings_logging", 0, 0, 5)>>
    \o AdvancedOptionsSection(cfg)
    \o CustomRulesSection(cfg)
    \o CustomDenySection(cfg)
    \o MatchTargetsSection(cfg)

\* lines 45-53: the policy and its protections
ProtectionResources ==
    <<"akamai_appsec_security_policy",
      "akamai_appsec_waf_protection",
      "akamai_appsec_api_constraints_protection",
      "akamai_appsec_ip_geo_protection",
      "akamai_appsec_malware_protection",
      "akamai_appsec_rate_protection",
      "akamai_appsec_reputation_protection",
      "akamai_appsec_slowpost_protection",
      "akamai_appsec_waf_mode">>

PolicyProtections(p) ==
    [ i \in DOMAIN ProtectionResources |-> Stmt(ProtectionResources[i], p.ID, 0, 44 + i) ]

\* lines 54-100: the actions nested in the policy
PolicyActions(p) ==
    (IF p.wafMode \in {"KRS", "ASE_MANUAL"} /\ p.WebApplicationFirewall # Nil
       THEN RangeStmt(p.WebApplicationFirewall[1].RuleActions, "akamai_appsec_rule", p.ID, 58)
       ELSE <<>>)
    \o RangeStmt([ i \in DOMAIN SelectSeq(p.CustomRuleActions, LAMBDA a : a.structured) |->
                     SelectSeq(p.CustomRuleActions, LAMBDA a : a.structured)[i].ID ],
                 "akamai_appsec_custom_rule_action", p.ID, 66)
    \o (IF p.WebApplicationFirewall # Nil
          THEN RangeStmt(p.WebApplicationFirewall[1].AttackGroupActions,
                         "akamai_appsec_attack_group", p.ID, 73)
          ELSE <<>>)
    \o (IF p.APIRequestConstraints # Nil
          THEN RangeStmt(p.APIRequestConstraints[1].APIEndpoints,
                         "akamai_appsec_api_request_constraints", p.ID, 80)
          ELSE <<>>)
    \o (IF p.ClientReputation # Nil
          THEN RangeStmt(p.ClientReputation[1].ReputationProfileActions,
                         "akamai_appsec_reputation_profile_action", p.ID, 87)
          ELSE <<>>)
    \o RangeStmt(p.RatePolicyActions, "akamai_appsec_rate_policy_action", p.ID, 93)
    \o RangeStmt(p.MalwarePolicyActions, "akamai_appsec_malware_policy_action", p.ID, 98)

\* lines 101-120: the settings of the policy
PolicySettings(p) ==
    IfStmt(p.IPGeoFirewall, "akamai_appsec_ip_geo", p.ID, 102)
    \o IfStmt(p.PenaltyBox, "akamai_appsec_penalty_box", p.ID, 105)
    \o IfStmt(p.SlowPost, "akamai_appsec_slow_post", p.ID, 108)
    \o IfStmt(p.LoggingOverrides, "akamai_appsec_advanced_settings_logging", p.ID, 111)
    \o IfStmt(p.PragmaHeader # Nil /\ p.PragmaHeader[1].Action,
              "akamai_appsec_advanced_settings_pragma_header", p.ID, 115)
    \o IfStmt(p.EvasivePathMatch,
              "akamai_appsec_advanced_settings_evasive_path_match", p.ID, 119)

\* lines 41-121: {{ range .SecurityPolicies }}
RECURSIVE SecurityPoliciesSection(_)
SecurityPoliciesSection(policies) ==
    IF policies = <<>> THEN <<>>
    ELSE PolicyProtections(Head(policies))
         \o PolicyActions(Head(policies))
         \o PolicySettings(Head(policies))
         \o SecurityPoliciesSection(Tail(policies))

\* lines 122-128: a rate policy is imported if its type is WAF
RatePoliciesSection(cfg) ==
    RangeStmt([ i \in DOMAIN SelectSeq(cfg.RatePolicies, LAMBDA r : r.Type = "WAF") |->
                  SelectSeq(cfg.RatePolicies, LAMBDA r : r.Type = "WAF")[i].ID ],
              "akamai_appsec_rate_policy", 0, 125)

\* a script that imports the activation whatever the staging status is
ActivationSectionAlways(cfg) ==
    <<Stmt("akamai_appsec_activations", 0, 0, 143)>>

\* lines 142-144
ActivationSection(cfg) ==
    IfStmt(cfg.Staging.Status = "Active", "akamai_appsec_activations", 0, 143)

\* lines 145-149
MalwarePoliciesSection(cfg) ==
    RangeStmt(cfg.MalwarePolicies, "akamai_appsec_malware_policy", 0, 147)

\* the whole template: the statements in the order of its lines
RenderImports(cfg) ==
    GlobalSection(cfg)
    \o SecurityPoliciesSection(cfg.SecurityPolicies)
    \o RatePoliciesSection(cfg)
    \o RangeStmt(cfg.ReputationProfiles, "akamai_appsec_reputation_profile", 0, 131)
    \o IfStmt(cfg.Siem # Nil /\ cfg.Siem[1].EnableSiem, "akamai_appsec_siem_settings", 0, 136)
    \o IfStmt(cfg.SelectedHosts # <<>>, "akamai_appsec_selected_hostnames", 0, 140)
    \o ActivationSection(cfg)
    \o MalwarePoliciesSection(cfg)

\* The configurations the script is rendered for.  Three families: every
\* global part; one policy with every combination of nested actions, or of
\* settings; every domain-level part, with the rest absent or present.
AdvancedOptionsValues ==
    {Nil} \cup
    { Some(o) : o \in [Logging : BOOLEAN, Prefetch : BOOLEAN,
                       PragmaHeader : BOOLEAN, EvasivePathMatch : BOOLEAN] }

CustomRuleLists ==
    UNION { { [ i \in 1..n |-> [ID |-> i, Tag |-> t[i]] ] : t \in [1..n -> BOOLEAN] } :
            n \in 0..MaxEntries }

MatchTargetsValues ==
    {Nil} \cup { Some(m) : m \in [WebsiteTargets : IdLists, APITargets : IdLists] }

GlobalParts ==
    [AdvancedOptions : AdvancedOptionsValues, CustomRules : CustomRuleLists,
     CustomDenyList : IdLists, MatchTargets : MatchTargetsValues]

EmptyGlobal ==
    [AdvancedOptions |-> Nil, CustomRules |-> <<>>, CustomDenyList |-> <<>>,
     MatchTargets |-> Nil]

\* advanced options with nothing set in them
BareGlobal ==
    [AdvancedOptions |-> Some([Logging |-> FALSE, Prefetch |-> FALSE,
                               PragmaHeader |-> FALSE, EvasivePathMatch |-> FALSE]),
     CustomRules |-> <<>>, CustomDenyList |-> <<>>, MatchTargets |-> Nil]

FullGlobal ==
    [AdvancedOptions |-> Some([Logging |-> TRUE, Prefetch |-> TRUE,
                               PragmaHeader |-> TRUE, EvasivePathMatch |-> TRUE]),
     CustomRules |-> <<[ID |-> 1, Tag |-> TRUE]>>, CustomDenyList |-> <<1>>,
     MatchTargets |-> Some([WebsiteTargets |-> <<1>>, APITargets |-> <<1>>])]

WafModes == {"KRS", "ASE_MANUAL", "ASE_AUTO"}

CustomRuleActionLists ==
    UNION { { [ i \in 1..n |-> [ID |-> i, structured |-> t[i]] ] : t \in [1..n -> BOOLEAN] } :
            n \in 0..MaxEntries }

PolicyActionParts ==
    [wafMode : WafModes,
     WebApplicationFirewall :
        {Nil} \cup { Some(w) : w \in [RuleActions : IdLists, AttackGroupActions : IdLists] },
     CustomRuleActions : CustomRuleActionLists,
     APIRequestConstraints : {Nil} \cup { Some([APIEndpoints |-> l]) : l \in IdLists },
     ClientReputation : {Nil} \cup { Some([ReputationProfileActions |-> l]) : l \in IdLists },
     RatePolicyActions : IdLists,
     MalwarePolicyActions : IdLists]

PolicySettingParts ==
    [IPGeoFirewall : BOOLEAN, PenaltyBox : BOOLEAN, SlowPost : BOOLEAN,
     LoggingOverrides : BOOLEAN,
     PragmaHeader : {Nil} \cup { Some([Action |-> a]) : a \in BOOLEAN },
     EvasivePathMatch : BOOLEAN]

NoPolicyActions ==
    [wafMode |-> "ASE_AUTO", WebApplicationFirewall |-> Nil, CustomRuleActions |-> <<>>,
     APIRequestConstraints |-> Nil, ClientReputation |-> Nil,
     RatePolicyActions |-> <<>>, MalwarePolicyActions |-> <<>>]

AllPolicyActions ==
    [wafMode |-> "KRS",
     WebApplicationFirewall |-> Some([RuleActions |-> <<1>>, AttackGroupActions |-> <<1>>]),
     CustomRuleActions |-> <<[ID |-> 1, structured |-> TRUE]>>,
     APIRequestConstraints |-> Some([APIEndpoints |-> <<1>>]),
     ClientReputation |-> Some([ReputationProfileActions |-> <<1>>]),
     RatePolicyActions |-> <<1>>, MalwarePolicyActions |-> <<1>>]

NoPolicySettings ==
    [IPGeoFirewall |-> FALSE, PenaltyBox |-> FALSE, SlowPost |-> FALSE,
     LoggingOverrides |-> FALSE, PragmaHeader |-> Nil, EvasivePathMatch |-> FALSE]

AllPolicySettings ==
    [IPGeoFirewall |-> TRUE, PenaltyBox |-> TRUE, SlowPost |-> TRUE,
     LoggingOverrides |-> TRUE, PragmaHeader |-> Some([Action |-> TRUE]),
     EvasivePathMatch |-> TRUE]

SecurityPolicy(id, a, t) ==
    [ID |-> id, wafMode |-> a.wafMode,
     WebApplicationFirewall |-> a.WebApplicationFirewall,
     CustomRuleActions |-> a.CustomRuleActions,
     APIRequestConstraints |-> a.APIRequestConstraints,
     ClientReputation |-> a.ClientReputation,
     RatePolicyActions |-> a.RatePolicyActions,
     MalwarePolicyActions |-> a.MalwarePolicyActions,
     IPGeoFirewall |-> t.IPGeoFirewall, PenaltyBox |-> t.PenaltyBox,
     SlowPost |-> t.SlowPost, LoggingOverrides |-> t.LoggingOverrides,
     PragmaHeader |-> t.PragmaHeader, EvasivePathMatch |-> t.EvasivePathMatch]

RatePolicyLists ==
    UNION { { [ i \in 1..n |-> [ID |-> i, Type |-> t[i]] ] : t \in [1..n -> {"WAF", "BOTMAN"}] } :
            n \in 0..MaxEntries }

DomainParts ==
    [RatePolicies : RatePolicyLists, ReputationProfiles : IdLists,
     Siem : {Nil} \cup { Some([EnableSiem |-> e]) : e \in BOOLEAN },
     SelectedHosts : IdLists,
     Staging : [Status : {"Active", "Inactive"}],
     MalwarePolicies : IdLists]

EmptyDomain ==
    [RatePolicies |-> <<>>, ReputationProfiles |-> <<>>, Siem |-> Nil,
     SelectedHosts |-> <<>>, Staging |-> [Status |-> "Inactive"],
     MalwarePolicies |-> <<>>]

Configuration(g, policies, d) ==
    [AdvancedOptions |-> g.AdvancedOptions, CustomRules |-> g.CustomRules,
     CustomDenyList |-> g.CustomDenyList, MatchTargets |-> g.MatchTargets,
     SecurityPolicies |-> policies,
     RatePolicies |-> d.RatePolicies, ReputationProfiles |-> d.ReputationProfiles,
     Siem |-> d.Siem, SelectedHosts |-> d.SelectedHosts, Staging |-> d.Staging,
     MalwarePolicies |-> d.MalwarePolicies]

Configurations ==
    { Configuration(g, <<>>, EmptyDomain) : g \in GlobalParts }
    \cup
    { Configuration(EmptyGlobal, <<SecurityPolicy(1, a, NoPolicySettings)>>, EmptyDomain) :
        a \in PolicyActionParts }
    \cup
    { Configuration(EmptyGlobal, <<SecurityPolicy(1, NoPolicyActions, t)>>, EmptyDomain) :
        t \in PolicySettingParts }
    \cup
    { Configuration(BareGlobal, <<SecurityPolicy(1, NoPolicyActions, t)>>, EmptyDomain) :
        t \in PolicySettingParts }
    \cup
    { Configuration(g, policies, d) :
        g \in {EmptyGlobal, FullGlobal},
        policies \in { <<>>,
                       <<SecurityPolicy(1, NoPolicyActions, NoPolicySettings)>>,
                       <<SecurityPolicy(1, AllPolicyActions, AllPolicySettings),
                         SecurityPolicy(2, NoPolicyActions, NoPolicySettings)>> },
        d \in DomainParts }

InitImports ==
    /\ IdleCloudlets
    /\ IdleAgg
    /\ IdleHelpers
    /\ tmplData \in { Some(cfg) : cfg \in Configurations }
    /\ tmplOut = Nil

ExecuteImportsTmpl ==
    /\ tmplData # Nil
    /\ tmplOut = Nil
    /\ tmplOut' = Some(RenderImports(tmplData[1]))
    /\ UNCHANGED tmplData
    /\ UNCHANGED outsideTmpl

NextImports == ExecuteImportsTmpl

SpecImports == InitImports /\ [][NextImports]_vars

(***************************************************************************)
(* Claims about the import script.                                         *)
(***************************************************************************)
\* the resources of the global settings of a configuration
GlobalSettingResources ==
    {"akamai_appsec_advanced_settings_logging",
     "akamai_appsec_advanced_settings_prefetch",
     "akamai_appsec_advanced_settings_pragma_header",
     "akamai_appsec_advanced_settings_evasive_path_match",
     "akamai_appsec_custom_rule", "akamai_appsec_custom_deny",
     "akamai_appsec_match_target"}

\* The precedence of a statement: 0 the parent configuration, 1 a global
\* setting, 2 a statement of a security policy (its import, protections,
\* nested actions and settings), 3 a domain-level setting, 4 the activation.
Precedence(stmt) ==
    IF stmt.resource = "akamai_appsec_configuration" THEN 0
    ELSE IF stmt.policy # 0 THEN 2
    ELSE IF stmt.resource \in GlobalSettingResources THEN 1
    ELSE IF stmt.resource = "akamai_appsec_activations" THEN 4
    ELSE 3

\* C13: the statements come in the precedence order parent configuration,
\* global settings, per policy its statements (policy by policy), domain
\* level settings, activation: the first statement is the import of the
\* configuration, nothing follows the import of the activation, and no
\* statement of a lower precedence follows one of a higher precedence.
C13_ImportOrder ==
    tmplOut # Nil =>
        LET out == tmplOut[1]
        IN  /\ out # <<>>
            /\ out[1].resource = "akamai_appsec_configuration"
            /\ \A i, j \in DOMAIN out :
                 i < j =>
                   /\ Precedence(out[i]) <= Precedence(out[j])
                   /\ out[j].resource # "akamai_appsec_configuration"
                   /\ out[i].resource # "akamai_appsec_activations"
                   /\ (out[i].policy # 0 /\ out[j].policy # 0)
                        => out[i].policy <= out[j].policy

\* the security policy a statement belongs to, if the configuration has it
PolicyOf(cfg, stmt) ==
    { cfg.SecurityPolicies[i] :
        i \in { k \in DOMAIN cfg.SecurityPolicies : cfg.SecurityPolicies[k].ID = stmt.policy } }

InList(list, id) == \E i \in DOMAIN list : list[i] = id
InRecords(list, id) == \E i \in DOMAIN list : list[i].ID = id

\* the data block a statement of a policy is made from is present and not
\* empty (for the policy and its protections: the policy itself)
PolicyBlockPresent(p, stmt) ==
    CASE stmt.resource \in { ProtectionResources[i] : i \in DOMAIN ProtectionResources } -> TRUE
      [] stmt.resource = "akamai_appsec_rule" ->
           p.WebApplicationFirewall # Nil
           /\ InList(p.WebApplicationFirewall[1].RuleActions, stmt.id)
      [] stmt.resource = "akamai_appsec_custom_rule_action" ->
           InRecords(p.CustomRuleActions, stmt.id)
      [] stmt.resource = "akamai_appsec_attack_group" ->
           p.WebApplicationFirewall # Nil
           /\ InList(p.WebApplicationFirewall[1].AttackGroupActions, stmt.id)
      [] stmt.resource = "akamai_appsec_api_request_constraints" ->
           p.APIRequestConstraints # Nil
           /\ InList(p.APIRequestConstraints[1].APIEndpoints, stmt.id)
      [] stmt.resource = "akamai_appsec_reputation_profile_action" ->
           p.ClientReputation # Nil
           /\ InList(p.ClientReputation[1].ReputationProfileActions, stmt.id)
      [] stmt.resource = "akamai_appsec_rate_policy_action" ->
           InList(p.RatePolicyActions, stmt.id)
      [] stmt.resource = "akamai_appsec_malware_policy_action" ->
           InList(p.MalwarePolicyActions, stmt.id)
      [] stmt.resource = "akamai_appsec_ip_geo" -> p.IPGeoFirewall
      [] stmt.resource = "akamai_appsec_penalty_box" -> p.PenaltyBox
      [] stmt.resource = "akamai_appsec_slow_post" -> p.SlowPost
      [] stmt.resource = "akamai_appsec_advanced_settings_logging" -> p.LoggingOverrides
      [] stmt.resource = "akamai_appsec_advanced_settings_pragma_header" ->
           p.PragmaHeader # Nil /\ p.PragmaHeader[1].Action
      [] stmt.resource = "akamai_appsec_advanced_settings_evasive_path_match" ->
           p.EvasivePathMatch
      [] OTHER -> FALSE

\* the data block a statement is made from is present and not empty
BlockPresent(cfg, stmt) ==
    IF stmt.policy # 0
      THEN \E p \in PolicyOf(cfg, stmt) : PolicyBlockPresent(p, stmt)
      ELSE
        CASE stmt.resource = "akamai_appsec_advanced_settings_logging" ->
               cfg.AdvancedOptions # Nil /\ cfg.AdvancedOptions[1].Logging
          [] stmt.resource = "akamai_appsec_advanced_settings_prefetch" ->
               cfg.AdvancedOptions # Nil /\ cfg.AdvancedOptions[1].Prefetch
          [] stmt.resource = "akamai_appsec_advanced_settings_pragma_header" ->
               cfg.AdvancedOptions # Nil /\ cfg.AdvancedOptions[1].PragmaHeader
          [] stmt.resource = "akamai_appsec_advanced_settings_evasive_path_match" ->
               cfg.AdvancedOptions # Nil /\ cfg.AdvancedOptions[1].EvasivePathMatch
          [] stmt.resource = "akamai_appsec_custom_rule" -> InRecords(cfg.CustomRules, stmt.id)
          [] stmt.resource = "akamai_appsec_custom_deny" -> InList(cfg.CustomDenyList, stmt.id)
          [] stmt.resource = "akamai_appsec_match_target" ->
               cfg.MatchTargets # Nil
               /\ \/ InList(cfg.MatchTargets[1].WebsiteTargets, stmt.id)
                  \/ InList(cfg.MatchTargets[1].APITargets, stmt.id)
          [] stmt.resource = "akamai_appsec_rate_policy" -> InRecords(cfg.RatePolicies, stmt.id)
          [] stmt.resource = "akamai_appsec_reputation_profile" ->
               InList(cfg.ReputationProfiles, stmt.id)
          [] stmt.resource = "akamai_appsec_siem_settings" ->
               cfg.Siem # Nil /\ cfg.Siem[1].EnableSiem
          [] stmt.resource = "akamai_appsec_selected_hostnames" -> cfg.SelectedHosts # <<>>
          [] stmt.resource = "akamai_appsec_activations" -> cfg.Staging.Status = "Active"
          [] stmt.resource = "akamai_appsec_malware_policy" ->
               InList(cfg.MalwarePolicies, stmt.id)
          [] OTHER -> FALSE

\* the statements of the script, other than the import of the parent
\* configuration, whose data block is absent or empty
StatementsWithoutBlock ==
    { i \in DOMAIN tmplOut[1] :
        /\ tmplOut[1][i].resource # "akamai_appsec_configuration"
        /\ ~BlockPresent(tmplData[1], tmplOut[1][i]) }

\* C14 as claimed: every statement other than the import of the parent
\* configuration is emitted only if its data block is present and not empty.
C14_EveryStatementHasItsBlock ==
    tmplOut # Nil => StatementsWithoutBlock = {}

\* C14: every statement other than the import of the parent configuration
\* and the import of the global logging settings is emitted only if its data
\* block is present and not empty; there is no rate policy import without
\* rate policies, no rate policy action import for a policy without rate
\* policy actions, and no activation import unless the staging status is
\* Active.
C14_GuardedStatementsHaveTheirBlock ==
    tmplOut # Nil =>
        LET cfg == tmplData[1]
            out == tmplOut[1]
        IN  /\ \A i \in StatementsWithoutBlock :
                 /\ out[i].resource = "akamai_appsec_advanced_settings_logging"
                 /\ out[i].policy = 0
            /\ cfg.RatePolicies = <<>> =>
                 \A i \in DOMAIN out : out[i].resource # "akamai_appsec_rate_policy"
            /\ \A k \in DOMAIN cfg.SecurityPolicies :
                 cfg.SecurityPolicies[k].RatePolicyActions = <<>> =>
                   \A i \in DOMAIN out :
                     ~(/\ out[i].resource = "akamai_appsec_rate_policy_action"
                       /\ out[i].policy = cfg.SecurityPolicies[k].ID)
            /\ cfg.Staging.Status # "Active" =>
                 \A i \in DOMAIN out : out[i].resource # "akamai_appsec_activations"

\* a script for a configuration with policies and malware policies, without
\* rate policies and not active on staging
C14_Witness ==
    /\ tmplOut # Nil
    /\ tmplData[1].Staging.Status = "Inactive"
    /\ tmplData[1].RatePolicies = <<>>
    /\ tmplData[1].MalwarePolicies # <<>>
    /\ Len(tmplData[1].SecurityPolicies) = 2
    /\ \E i \in DOMAIN tmplOut[1] : tmplOut[1][i].resource = "akamai_appsec_malware_policy"
    /\ \A i \in DOMAIN tmplOut[1] : tmplOut[1][i].resource # "akamai_appsec_activations"

(***************************************************************************)
(* The Terraform state oracle of the dns export: checkForResource.  The    *)
(* package variable tfState holds the state once it has been read.         *)
(* readTfState is not part of the sources at hand: it is modelled as the   *)
(* read of the state file under tfWorkPath, which fails (and leaves        *)
(* tfState nil) when the file is missing or cannot be parsed, and sets     *)
(* tfState to the state of the file otherwise.                             *)
(***************************************************************************)
\* checkForResource is called at most MaxChecks times in a run
MaxChecks == 2

ResourceTypes == {"akamai_dns_zone", "akamai_dns_record"}
ResourceNames == {"example_com", "www_example_com"}
TfWorkPaths == {"./", "/tf"}

Resources == [Type : ResourceTypes, Name : ResourceNames]

\* the states a state file may hold: up to two resources
TfStates == { [Resources |-> rs] : rs \in { x \in SUBSET Resources : Cardinality(x) <= 2 } }

\* a comparison that is content with one of the two fields
ResourceMatchesEither(r, rtype, name) == r.Type = rtype \/ r.Name = name

\* r.Type == rtype && r.Name == name
ResourceMatches(r, rtype, name) == r.Type = rtype /\ r.Name = name

\* readTfState(tfWorkPath): the error and the value of tfState after it
readTfState(tfWorkPath) ==
    IF stateFile[tfWorkPath] = Nil
      THEN [err |-> TRUE, tfState |-> Nil]
      ELSE [err |-> FALSE, tfState |-> stateFile[tfWorkPath]]

InitDns ==
    /\ IdleCloudlets
    /\ IdleAgg
    /\ IdleTmpl
    /\ IdleProc /\ IdleEsc /\ IdleLba /\ IdleRuns
    /\ tfState = Nil
    /\ stateFile \in [TfWorkPaths -> {Nil} \cup { Some(st) : st \in TfStates }]
    /\ reads = 0
    /\ checks = <<>>

\* a checkForResource that reads the state in every call
StateNeverKept(state) == TRUE

\* if tfState == nil
StateNotLoaded(state) == state = Nil

\* one call of checkForResource; the call, what it read, the state it
\* answered from and its result are appended to checks
checkForResource ==
    /\ Len(checks) < MaxChecks
    /\ \E rtype \in ResourceTypes, name \in ResourceNames, tfWorkPath \in TfWorkPaths :
         LET rd == IF StateNotLoaded(tfState)
                     THEN readTfState(tfWorkPath)
                     ELSE [err |-> FALSE, tfState |-> tfState]
             res == IF rd.err THEN FALSE
                    ELSE \E r \in rd.tfState[1].Resources : ResourceMatches(r, rtype, name)
         IN  /\ tfState' = rd.tfState
             /\ reads' = IF StateNotLoaded(tfState) THEN reads + 1 ELSE reads
             /\ checks' = Append(checks,
                             [rtype |-> rtype, name |-> name, tfWorkPath |-> tfWorkPath,
                              read |-> IF ~StateNotLoaded(tfState) THEN "none"
                                       ELSE IF rd.err THEN "failed" ELSE "ok",
                              state |-> rd.tfState,
                              res |-> res])
    /\ UNCHANGED stateFile
    /\ UNCHANGED outsideDns

NextDns == checkForResource

SpecDns == InitDns /\ [][NextDns]_vars

\* C15: a call whose read of the state fails returns false (and returns:
\* the export goes on); a call that has the state, read by itself or
\* before, returns true if and only if the state holds a resource of the
\* type and the name asked for; a call that reads gets the state of the
\* file under its tfWorkPath.
C15_AlreadyImportedOracle ==
    \A i \in DOMAIN checks :
        LET c == checks[i]
        IN  /\ c.res \in BOOLEAN
            /\ c.read = "failed" <=> (c.state = Nil)
            /\ c.read = "failed" => (c.res = FALSE /\ stateFile[c.tfWorkPath] = Nil)
            /\ c.read = "ok" => c.state = stateFile[c.tfWorkPath]
            /\ c.state # Nil =>
                 (c.res <=> [Type |-> c.rtype, Name |-> c.name] \in c.state[1].Resources)

\* a failed read answered false, and a later call that read a state with
\* two resources of the type asked for found the one with the right name
C15_Witness ==
    /\ Len(checks) = 2
    /\ checks[1].read = "failed" /\ ~checks[1].res
    /\ checks[2].read = "ok" /\ checks[2].res
    /\ \E r \in checks[2].state[1].Resources :
         r.Type = checks[2].rtype /\ r.Name # checks[2].name

(***************************************************************************)
(* Claims about the order of the calls of createPolicy.                    *)
(***************************************************************************)
\* the place of a call in the pipeline
StepOf(op) ==
    CASE op = "ListPolicies" -> 1
      [] op = "ListPolicyVersions" -> 2
      [] op = "GetPolicyVersion" -> 3
      [] op = "ListLoadBalancerVersions" -> 4
      [] op = "ListLoadBalancerActivations" -> 5
      [] op = "ProcessTemplates" -> 6

\* the version bodies fetched without error
FetchedBodies ==
    { calls[i].resp.body : i \in { j \in CallsOf("GetPolicyVersion") : ~calls[j].resp.err } }

\* C16: the calls are made in the order ListPolicies, ListPolicyVersions,
\* one GetPolicyVersion, for an ALB policy only the load balancer version
\* listings and then the activation listings, and ProcessTemplates.  A
\* failed call is the last call.  ProcessTemplates is called at most once,
\* and only after the policy was found, its type is supported and its latest
\* version was fetched.  A policy that is absent or of an unsupported type
\* stops the run before any version request; a version listing without
\* versions stops it before GetPolicyVersion; match rules of another type
\* in an ALB policy stop it before any load balancer request.
C16_CallOrder ==
    entry = "createPolicy" =>
        /\ \A i, j \in DOMAIN calls :
             i < j => /\ StepOf(calls[i].op) <= StepOf(calls[j].op)
                      /\ ~calls[i].resp.err
        /\ Cardinality(CallsOf("GetPolicyVersion")) <= 1
        /\ Cardinality(CallsOf("ProcessTemplates")) <= 1
        /\ calls # <<>> => calls[1].op = "ListPolicies"
        /\ (\E i \in DOMAIN calls : StepOf(calls[i].op) >= 2) =>
             /\ ListedTargets # {}
             /\ \A t \in ListedTargets :
                  t.CloudletCode \in {"ALB", "AP", "AS", "CD", "ER", "FR", "IG", "VP"}
             /\ CallsOf("ListPolicyVersions") # {}
        /\ CallsOf("GetPolicyVersion") # {} =>
             \A i \in CallsOf("ListPolicyVersions") :
                 ~calls[i].resp.err /\ (i = MinOf(CallsOf("ListPolicyVersions"))
                                          => calls[i].resp.page.len > 0)
        /\ (\E i \in DOMAIN calls : StepOf(calls[i].op) >= 4) => FetchedBodies # {}
        /\ (\E i \in DOMAIN calls : StepOf(calls[i].op) \in {4, 5}) =>
             /\ \A t \in ListedTargets : t.CloudletCode = "ALB"
             /\ \A b \in FetchedBodies :
                  \A k \in DOMAIN b.MatchRules : b.MatchRules[k].Type = "ALB"
        /\ CallsOf("ProcessTemplates") # {} =>
             /\ FetchedBodies # {}
             /\ \A t \in ListedTargets, b \in FetchedBodies :
                  t.CloudletCode = "ALB" =>
                    \A k \in DOMAIN b.MatchRules : b.MatchRules[k].Type = "ALB"
        /\ CallsOf("ListLoadBalancerActivations") # {} =>
             CallsOf("ListLoadBalancerVersions") # {}

\* an ALB export that made every kind of call and ended with ProcessTemplates
C16_Witness ==
    /\ Returned
    /\ CallsOf("ListLoadBalancerVersions") # {}
    /\ Cardinality(CallsOf("ListLoadBalancerActivations")) >= 2
    /\ calls[Len(calls)].op = "ProcessTemplates"
    /\ Cardinality(CallsOf("ListPolicies")) >= 2

(***************************************************************************)
(* More claims about the finder and the resolver.                          *)
(***************************************************************************)
\* C17: when the j-th ListPolicies request is answered by an error, the
\* finder has returned that error and no policy, and the failed request is
\* the last one: j requests were made, at offsets 0, pageSize, ...,
\* (j-1)*pageSize, none of them twice.
C17_FinderAbortsOnError ==
    \A j \in DOMAIN calls :
        (calls[j].op = "ListPolicies" /\ calls[j].resp.err) =>
            /\ Len(calls) = j
            /\ pc = "done"
            /\ findRes = Some([policy |-> Nil, err |-> Some(NewError("oops"))])
            /\ \A i \in 1..j : calls[i].op = "ListPolicies" /\ calls[i].arg = (i - 1) * pageSize
            /\ \A i \in 1..(j - 1) : FullNoMatch(calls[i].resp)

\* the third request failed, after two full pages without the target
C17_Witness ==
    /\ entry = "findPolicyByName"
    /\ Len(calls) = 3
    /\ calls[3].resp.err
    /\ pc = "done"
    /\ findRes # Nil /\ findRes[1].policy = Nil

\* C18: for a policy with at least one version (the first page listed is
\* not empty), when no request fails, getLatestPolicyVersion returns
\* without error the body of the greatest version listed, however many
\* versions there are: an empty page after full pages ends the listing.
C18_ResolvesEveryVersionCount ==
    (/\ entry = "getLatestPolicyVersion"
     /\ pc = "done"
     /\ calls # <<>>
     /\ \A i \in DOMAIN calls : ~calls[i].resp.err
     /\ calls[1].resp.page.len > 0) =>
        /\ verRes # Nil
        /\ verRes[1].err = Nil
        /\ \E n \in CallsOf("GetPolicyVersion") :
             /\ calls[n].arg = MaxVersionFetchedBefore(n)
             /\ verRes[1].policyVersion = Some(calls[n].resp.body)

(***************************************************************************)
(* getApplicationLoadBalancerActivation called on its own.                 *)
(***************************************************************************)
\* bound: ListLoadBalancerActivations lists at most MaxListed activations
MaxListed == 3

\* ActivatedDate as the rank of the timestamp in timestamp order
ActivatedDates == 1..3

ListedActivationEntries ==
    { LoadBalancerActivation("origin_1", n, 1, d) :
        n \in {LbNetworkProduction, LbNetworkStaging}, d \in ActivatedDates }

\* every ordering and mix of networks in a listing
ListedActivations ==
    UNION { [1..n -> ListedActivationEntries] : n \in 0..MaxListed }

InitLba ==
    /\ IdleCloudlets
    /\ IdleAgg
    /\ IdleTmpl
    /\ IdleProc /\ IdleEsc /\ IdleDns /\ IdleRuns
    /\ lbaRes = Nil

\* one call: the request, then nil and the error, or the filtering, the
\* sort and the first of the sorted activations
getApplicationLoadBalancerActivation ==
    /\ lbaRes = Nil
    /\ \E network \in {LbNetworkProduction, LbNetworkStaging},
          resp \in {ErrResp} \cup { [err |-> FALSE, list |-> l] : l \in ListedActivations } :
         lbaRes' = Some([originID |-> "origin_1",
                         network |-> network,
                         resp |-> resp,
                         activation |-> IF resp.err THEN Nil
                                        ELSE NewestActivation(resp.list, network),
                         err |-> IF resp.err THEN Some(ApiError) ELSE Nil])
    /\ UNCHANGED outsideLba

NextLba == getApplicationLoadBalancerActivation

SpecLba == InitLba /\ [][NextLba]_vars

\* the listed activations on the requested network, in listing order
ListedOnNetwork ==
    SelectSeq(lbaRes[1].resp.list, LAMBDA act : act.Network = lbaRes[1].network)

\* C19: getApplicationLoadBalancerActivation returns nil without error
\* exactly when no listed activation is on the requested network; otherwise
\* it returns a listed activation on that network whose ActivatedDate is the
\* greatest of those on that network, whatever the order and the mix of
\* networks in the listing.  An API error is returned with no activation.
C19_ReturnsNewestOnNetwork ==
    lbaRes # Nil =>
        LET r == lbaRes[1]
        IN  IF r.resp.err
              THEN r.activation = Nil /\ r.err = Some(ApiError)
              ELSE /\ r.err = Nil
                   /\ (r.activation = Nil) <=> (ListedOnNetwork = <<>>)
                   /\ r.activation # Nil =>
                        /\ \E i \in DOMAIN ListedOnNetwork :
                             ListedOnNetwork[i] = r.activation[1]
                        /\ r.activation[1].ActivatedDate =
                             MaxOf({ ListedOnNetwork[i].ActivatedDate :
                                       i \in DOMAIN ListedOnNetwork })

(***************************************************************************)
(* Two export runs of one ALB policy against the same answers of the API:  *)
(* the load balancer branch of createPolicy, run by run.                   *)
(***************************************************************************)
\* bound: the number of runs made against the same answers
MaxRuns == 2

AllOriginIDs == {"origin_1", "origin_2"}

\* what the API answers for each origin, the same in every run
ExportInputs ==
    [rules : AlbRuleSets,
     versions : { f \in [AllOriginIDs -> {ErrResp} \cup
                           UNION { { [err |-> FALSE, list |-> l] :
                                       l \in LoadBalancerVersionLists(o) } : o \in AllOriginIDs }] :
                    \A o \in AllOriginIDs :
                      f[o].err \/ f[o].list \in LoadBalancerVersionLists(o) },
     activations : { f \in [AllOriginIDs -> {ErrResp} \cup
                           UNION { { [err |-> FALSE, list |-> l] :
                                       l \in LoadBalancerActivationLists(o) } : o \in AllOriginIDs }] :
                    \A o \in AllOriginIDs :
                      f[o].err \/ f[o].list \in LoadBalancerActivationLists(o) }]

\* getLoadBalancers over originIDs from position i on: nil and the error of
\* the first listing that fails, or the greatest version of each origin
RECURSIVE LoadBalancersOf(_, _, _, _)
LoadBalancersOf(originIDs, i, versions, loadBalancers) ==
    IF i > Len(originIDs) THEN [list |-> Some(loadBalancers), err |-> Nil]
    ELSE LET resp == versions[originIDs[i]]
         IN  IF resp.err THEN [list |-> Nil, err |-> Some(ApiError)]
             ELSE LET r == RangeLoadBalancerVersions(resp.list, 1,
                               [ver |-> 0, loadBalancerVersion |-> Nil])
                  IN  LoadBalancersOf(originIDs, i + 1, versions,
                        IF r.ver > 0 THEN loadBalancers \o r.loadBalancerVersion
                                     ELSE loadBalancers)

\* getLoadBalancerActivations over originIDs from position i on: per origin
\* the production activation, then the staging one, each if there is one
RECURSIVE LoadBalancerActivationsOf(_, _, _, _)
LoadBalancerActivationsOf(originIDs, i, listed, activations) ==
    IF i > Len(originIDs) THEN [list |-> Some(activations), err |-> Nil]
    ELSE LET resp == listed[originIDs[i]]
         IN  IF resp.err THEN [list |-> Nil, err |-> Some(ApiError)]
             ELSE LoadBalancerActivationsOf(originIDs, i + 1, listed,
                    activations \o NewestActivation(resp.list, LbNetworkProduction)
                                \o NewestActivation(resp.list, LbNetworkStaging))

\* The load balancer branch of createPolicy for origin IDs in the order
\* originIDs: the lists handed to ProcessTemplates, or the error returned.
LoadBalancerBranch(input, originIDs) ==
    LET lbs == LoadBalancersOf(originIDs, 1, input.versions, <<>>)
        acts == LoadBalancerActivationsOf(originIDs, 1, input.activations, <<>>)
    IN  IF lbs.err # Nil
          THEN [passed |-> Nil, err |-> Some(WrapError(ErrFetchingVersion, lbs.err[1]))]
        ELSE IF acts.err # Nil
          THEN [passed |-> Nil, err |-> Some(WrapError(ErrFetchingVersion, acts.err[1]))]
        ELSE [passed |-> Some([LoadBalancers |-> lbs.list[1],
                               LoadBalancerActivations |-> acts.list[1]]),
              err |-> Nil]

InitRuns ==
    /\ IdleCloudlets
    /\ IdleAgg
    /\ IdleTmpl
    /\ IdleProc /\ IdleEsc /\ IdleDns /\ IdleLba
    /\ exportInput \in { Some(x) : x \in ExportInputs }
    /\ exportRuns = <<>>

\* one run: getOriginIDs, whose result is in the order the range over its
\* map yields, then the two loops over the origin IDs
RunLoadBalancerBranch ==
    /\ Len(exportRuns) < MaxRuns
    /\ LET input == exportInput[1]
           o == getOriginIDs(input.rules)
       IN  IF o.err # Nil
             THEN exportRuns' = Append(exportRuns,
                    [passed |-> Nil,
                     err |-> Some(WrapError(ErrFetchingVersion, o.err[1]))])
             ELSE \E originIDs \in MapOrders(o.ids) :
                    exportRuns' = Append(exportRuns, LoadBalancerBranch(input, originIDs))
    /\ UNCHANGED exportInput
    /\ UNCHANGED outsideRuns

NextRuns == RunLoadBalancerBranch

SpecRuns == InitRuns /\ [][NextRuns]_vars

\* C20: runs of the export given the same answers of the API hand
\* ProcessTemplates the same data, the lists LoadBalancers and
\* LoadBalancerActivations in the same order, also when the match rules name
\* two or more distinct origin IDs.
C20_RunsPassIdenticalData ==
    \A a, b \in DOMAIN exportRuns : exportRuns[a] = exportRuns[b]

(***************************************************************************)
(* Claims about the data createPolicy hands to ProcessTemplates.           *)
(***************************************************************************)
\* the data of the ProcessTemplates call, when the run has made it
Passed == { calls[n].arg : n \in CallsOf("ProcessTemplates") }

\* the networks the policy found has an activation entry on
NetworksOfPolicy ==
    { findRes[1].policy[1].Activations[i].Network :
        i \in DOMAIN findRes[1].policy[1].Activations }

\* C21: the PolicyActivations map handed to ProcessTemplates is never nil,
\* its keys are among "staging" and "prod", "staging" is a key exactly when
\* the policy has an activation entry on the staging network and "prod"
\* exactly when it has one on the production network; a policy without
\* activations gives the empty map.
C21_ActivationMapKeys ==
    entry = "createPolicy" =>
      \A d \in Passed :
        /\ d.PolicyActivations # Nil
        /\ DOMAIN d.PolicyActivations[1] \subseteq {"staging", "prod"}
        /\ ("staging" \in DOMAIN d.PolicyActivations[1]) <=>
             (NetworkStaging \in NetworksOfPolicy)
        /\ ("prod" \in DOMAIN d.PolicyActivations[1]) <=>
             (NetworkProduction \in NetworksOfPolicy)
        /\ (findRes[1].policy[1].Activations = <<>>) =>
             (DOMAIN d.PolicyActivations[1] = {})

\* a policy active on production only: the map handed over has the one key
C21_Witness ==
    /\ Returned
    /\ Passed # {}
    /\ findRes[1].policy[1].Activations = ProdOnlyActivations
    /\ \A d \in Passed : DOMAIN d.PolicyActivations[1] = {"prod"}

\* the activations listed for an origin in this run, <<>> if none was listed
ListedFor(originID) ==
    LET answered == { i \in CallsOf("ListLoadBalancerActivations") :
                        calls[i].arg = originID /\ ~calls[i].resp.err }
    IN  IF answered = {} THEN <<>> ELSE calls[MinOf(answered)].resp.list

\* the position of an origin ID in the list the loops go through
PositionOf(originID) ==
    MinOf({ i \in DOMAIN alb.originIDs : alb.originIDs[i] = originID })

\* C22: the LoadBalancerActivations list built by getLoadBalancerActivations
\* holds, for the origin IDs in their order, the production activation of an
\* origin and then its staging activation, each exactly when the listing of
\* the origin has an activation on that network: one entry at most per
\* origin and network, each taken from the listing of its origin.  When a
\* listing fails the run ends with the error and no list is handed on.
C22_ActivationsPerOriginAndNetwork ==
    /\ \A d \in Passed :
         d.LoadBalancerActivations # Nil =>
           LET A == d.LoadBalancerActivations[1]
           IN  /\ \A k \in DOMAIN A :
                    /\ \E i \in DOMAIN alb.originIDs : alb.originIDs[i] = A[k].OriginID
                    /\ \E i \in DOMAIN ListedFor(A[k].OriginID) :
                         ListedFor(A[k].OriginID)[i] = A[k]
               /\ \A i \in DOMAIN alb.originIDs :
                  \A n \in {LbNetworkProduction, LbNetworkStaging} :
                    Cardinality({ k \in DOMAIN A : /\ A[k].OriginID = alb.originIDs[i]
                                                   /\ A[k].Network = n }) =
                      IF \E j \in DOMAIN ListedFor(alb.originIDs[i]) :
                           ListedFor(alb.originIDs[i])[j].Network = n
                        THEN 1 ELSE 0
               /\ \A j, k \in DOMAIN A :
                    j < k =>
                      /\ PositionOf(A[j].OriginID) <= PositionOf(A[k].OriginID)
                      /\ A[j].OriginID = A[k].OriginID =>
                           /\ A[j].Network = LbNetworkProduction
                           /\ A[k].Network = LbNetworkStaging
    /\ SomeCallFailed({"ListLoadBalancerActivations"}) =>
         /\ Returned
         /\ calls[Len(calls)].op = "ListLoadBalancerActivations"
         /\ calls[Len(calls)].resp.err
         /\ Passed = {}
         /\ tfPolicyData[1].LoadBalancerActivations = Nil
         /\ retErr = Some(Some(WrapError(ErrFetchingVersion, ApiError)))

\* two origins: the first has a staging activation only, the second one on
\* each network
C22_Witness ==
    /\ Returned
    /\ Len(alb.originIDs) = 2
    /\ \E d \in Passed :
         /\ d.LoadBalancerActivations # Nil
         /\ Len(d.LoadBalancerActivations[1]) = 3
         /\ d.LoadBalancerActivations[1][1].OriginID = alb.originIDs[1]
         /\ d.LoadBalancerActivations[1][1].Network = LbNetworkStaging
         /\ d.LoadBalancerActivations[1][2].Network = LbNetworkProduction
         /\ d.LoadBalancerActivations[1][3].Network = LbNetworkStaging

\* the ListLoadBalancerVersions requests of the run, in the order made
ListLoadBalancerVersionsCalls ==
    SelectSeq(calls, LAMBDA c : c.op = "ListLoadBalancerVersions")

\* C23: getLoadBalancers makes one ListLoadBalancerVersions request per
\* origin ID, in the order of the origin IDs; the LoadBalancers list holds,
\* in that order, for every origin with a listed version the listed entry
\* of the greatest Version and nothing for an origin without one, hence one
\* entry at most per origin.  When a listing fails the run ends with the
\* error and no list is handed on.
C23_GreatestVersionPerOrigin ==
    LET L == ListLoadBalancerVersionsCalls
    IN  /\ Len(L) <= Len(alb.originIDs)
        /\ \A i \in DOMAIN L : L[i].arg = alb.originIDs[i]
        /\ \A d \in Passed :
             d.LoadBalancers # Nil =>
               LET B == d.LoadBalancers[1]
                   listed == { i \in DOMAIN L : L[i].resp.list # <<>> }
               IN  /\ Len(L) = Len(alb.originIDs)
                   /\ Len(B) = Cardinality(listed)
                   /\ \A i \in listed :
                        \E k \in DOMAIN B :
                          /\ k = Cardinality({ j \in listed : j <= i })
                          /\ \E x \in DOMAIN L[i].resp.list : L[i].resp.list[x] = B[k]
                          /\ B[k].OriginID = alb.originIDs[i]
                          /\ B[k].Version =
                               MaxOf({ L[i].resp.list[x].Version :
                                         x \in DOMAIN L[i].resp.list })
        /\ SomeCallFailed({"ListLoadBalancerVersions"}) =>
             /\ Returned
             /\ calls[Len(calls)].op = "ListLoadBalancerVersions"
             /\ calls[Len(calls)].resp.err
             /\ Passed = {}
             /\ tfPolicyData[1].LoadBalancers = Nil
             /\ retErr = Some(Some(WrapError(ErrFetchingVersion, ApiError)))

\* two origins, the first without a listed version, the second with
\* version 2 listed before version 1
C23_Witness ==
    /\ Returned
    /\ Len(ListLoadBalancerVersionsCalls) = 2
    /\ ~SomeCallFailed({"ListLoadBalancerVersions"})
    /\ ListLoadBalancerVersionsCalls[1].resp.list = <<>>
    /\ Len(ListLoadBalancerVersionsCalls[2].resp.list) = 2
    /\ ListLoadBalancerVersionsCalls[2].resp.list[1].Version = 2
    /\ \E d \in Passed :
         /\ d.LoadBalancers # Nil
         /\ Len(d.LoadBalancers[1]) = 1
         /\ d.LoadBalancers[1][1].Version = 2

\* the load balancer requests of the run
LoadBalancerCalls ==
    CallsOf("ListLoadBalancerVersions") \cup CallsOf("ListLoadBalancerActivations")

\* the origin IDs named by the match rules of the version body fetched
OriginIDsOfLatestVersion ==
    { verRes[1].policyVersion[1].MatchRules[i].OriginID :
        i \in DOMAIN verRes[1].policyVersion[1].MatchRules } \ {""}

\* C24: for a policy whose cloudlet code is not "ALB" createPolicy makes no
\* load balancer request and hands ProcessTemplates nil LoadBalancers and
\* nil LoadBalancerActivations; for an ALB policy both lists are non-nil,
\* maybe empty, and come from one request series per distinct origin ID of
\* the match rules of the latest version.
C24_LoadBalancerDataOnlyForAlb ==
    /\ (entry = "createPolicy" /\ findRes # Nil /\ findRes[1].policy # Nil
        /\ findRes[1].policy[1].CloudletCode # "ALB") => LoadBalancerCalls = {}
    /\ \A d \in Passed :
         IF d.CloudletCode # "ALB"
           THEN /\ d.LoadBalancers = Nil
                /\ d.LoadBalancerActivations = Nil
           ELSE /\ d.LoadBalancers # Nil
                /\ d.LoadBalancerActivations # Nil
                /\ \A i, j \in DOMAIN alb.originIDs :
                     i # j => alb.originIDs[i] # alb.originIDs[j]
                /\ { calls[n].arg : n \in CallsOf("ListLoadBalancerVersions") } =
                     OriginIDsOfLatestVersion
                /\ { calls[n].arg : n \in CallsOf("ListLoadBalancerActivations") } =
                     OriginIDsOfLatestVersion
                /\ Cardinality(CallsOf("ListLoadBalancerVersions")) =
                     Cardinality(OriginIDsOfLatestVersion)
                /\ \A k \in DOMAIN d.LoadBalancers[1] :
                     d.LoadBalancers[1][k].OriginID \in OriginIDsOfLatestVersion
                /\ \A k \in DOMAIN d.LoadBalancerActivations[1] :
                     d.LoadBalancerActivations[1][k].OriginID \in OriginIDsOfLatestVersion

\* an ALB policy whose rules have no origin ID: two empty lists, non-nil
C24_Witness ==
    /\ Returned
    /\ \E d \in Passed :
         /\ d.CloudletCode = "ALB"
         /\ d.MatchRules = Some(<<>>)
         /\ d.LoadBalancers = Some(<<>>)
         /\ d.LoadBalancerActivations = Some(<<>>)
         /\ LoadBalancerCalls = {}

\* createPolicy has called getOriginIDs: the policy is an ALB policy and the
\* match rules of the version body are in tfPolicyData
OriginIDsCollected ==
    /\ entry = "createPolicy"
    /\ tfPolicyData # Nil
    /\ tfPolicyData[1].CloudletCode = "ALB"
    /\ tfPolicyData[1].MatchRules # Nil

\* C25: the origin IDs getOriginIDs returns are the non-empty OriginID of
\* the match rules given, each once: no duplicate, never the empty string,
\* nothing but an origin ID of some rule.  If a rule is not an ALB match
\* rule the call returns an error and no IDs.
C25_OriginIDsDeduplicated ==
    OriginIDsCollected =>
      LET rules == tfPolicyData[1].MatchRules[1]
      IN  IF \E i \in DOMAIN rules : rules[i].Type # "ALB"
            THEN /\ alb.originIDs = <<>>
                 /\ LoadBalancerCalls = {}
                 /\ Returned
                 /\ retErr # Nil /\ retErr[1] # Nil
                 /\ ErrorsIs(retErr[1][1], "ErrFetchingVersion")
            ELSE /\ \A i, j \in DOMAIN alb.originIDs :
                      i # j => alb.originIDs[i] # alb.originIDs[j]
                 /\ \A i \in DOMAIN alb.originIDs : alb.originIDs[i] # ""
                 /\ { alb.originIDs[i] : i \in DOMAIN alb.originIDs } =
                      { rules[i].OriginID : i \in DOMAIN rules } \ {""}

\* four rules, one origin named twice and one rule without origin: two IDs
C25_Witness ==
    /\ OriginIDsCollected
    /\ Len(tfPolicyData[1].MatchRules[1]) = 4
    /\ Len(alb.originIDs) = 2

\* the version bodies GetPolicyVersion has answered with
FetchedVersionBodies ==
    { calls[n].resp.body : n \in { i \in CallsOf("GetPolicyVersion") : ~calls[i].resp.err } }

\* C26: in the data handed to ProcessTemplates, Name, CloudletCode and
\* GroupID are those of the listed policy that carries the target name,
\* Description, MatchRuleFormat and MatchRules are those of the version body
\* fetched, and Section is the section argument; the data is handed over
\* once and tfPolicyData is as it was handed over from then on.
C26_SnapshotProvenance ==
    entry = "createPolicy" =>
      /\ Cardinality(CallsOf("ProcessTemplates")) <= 1
      /\ \A d \in Passed :
           /\ d.Section = args.section
           /\ d.Name = args.policyName
           /\ \E t \in ListedTargets :
                /\ d.CloudletCode = t.CloudletCode
                /\ d.GroupID = t.GroupID
           /\ \E b \in FetchedVersionBodies :
                /\ d.Description = b.Description
                /\ d.MatchRuleFormat = b.MatchRuleFormat
                /\ d.MatchRules = Some(b.MatchRules)
           /\ tfPolicyData = Some(d)

\* an export that went through: the description is that of the version
C26_Witness ==
    /\ Returned
    /\ retErr = Some(Nil)
    /\ \E d \in Passed :
         /\ d.Description = "version description"
         /\ d.GroupID = 234
         /\ d.MatchRules # Nil /\ d.MatchRules[1] # <<>>
         /\ tfPolicyData = Some(d)

Block(resource, name, policy) == [resource |-> resource, name |-> name, policy |-> policy]

IfBlock(cond, resource, name, policy) ==
    IF cond THEN <<Block(resource, name, policy)>> ELSE <<>>

\* lines 68-99: the logging block stands outside every {{ if }}; its body
\* evaluates .AdvancedOptions.Logging, which fails on a nil .AdvancedOptions
GlobalAdvancedBlocks(cfg) ==
    IF cfg.AdvancedOptions = Nil THEN Nil
    ELSE Some(<<Block("akamai_appsec_advanced_settings_logging", "logging", 0)>>
              \o IfBlock(cfg.AdvancedOptions[1].Prefetch,
                         "akamai_appsec_advanced_settings_prefetch", "prefetch", 0)
              \o IfBlock(cfg.AdvancedOptions[1].PragmaHeader,
                         "akamai_appsec_advanced_settings_pragma_header", "pragma_header", 0)
              \o IfBlock(cfg.AdvancedOptions[1].EvasivePathMatch,
                         "akamai_appsec_advanced_settings_evasive_path_match",
                         "evasive_path_match", 0))

\* a template that declares the pragma header override of a policy without
\* looking at its action
PolicyAdvancedBlocksAnyAction(p) ==
    IfBlock(p.LoggingOverrides, "akamai_appsec_advanced_settings_logging", "$policyName", p.ID)
    \o IfBlock(p.PragmaHeader # Nil,
               "akamai_appsec_advanced_settings_pragma_header", "$policyName", p.ID)
    \o IfBlock(p.EvasivePathMatch,
               "akamai_appsec_advanced_settings_evasive_path_match", "$policyName", p.ID)

\* lines 102-130: the overrides of one policy
PolicyAdvancedBlocks(p) ==
    IfBlock(p.LoggingOverrides, "akamai_appsec_advanced_settings_logging", "$policyName", p.ID)
    \o IfBlock(p.PragmaHeader # Nil /\ p.PragmaHeader[1].Action,
               "akamai_appsec_advanced_settings_pragma_header", "$policyName", p.ID)
    \o IfBlock(p.EvasivePathMatch,
               "akamai_appsec_advanced_settings_evasive_path_match", "$policyName", p.ID)

\* lines 100-132: {{ range .SecurityPolicies }}
RECURSIVE RangePolicyAdvancedBlocks(_)
RangePolicyAdvancedBlocks(policies) ==
    IF policies = <<>> THEN <<>>
    ELSE PolicyAdvancedBlocks(Head(policies)) \o RangePolicyAdvancedBlocks(Tail(policies))

\* the advanced settings template: <<>> if its execution fails, else <<the
\* blocks in the order of its lines>>
RenderAdvanced(cfg) ==
    IF GlobalAdvancedBlocks(cfg) = Nil THEN Nil
    ELSE Some(GlobalAdvancedBlocks(cfg)[1] \o RangePolicyAdvancedBlocks(cfg.SecurityPolicies))

\* the resource name an import statement is written with: the literal of
\* lines 5, 8, 11 and 14 of imports.tmpl, else $policyName
ImportName(stmt) ==
    IF stmt.line = 5 THEN "logging"
    ELSE IF stmt.line = 8 THEN "prefetch"
    ELSE IF stmt.line = 11 THEN "pragma_header"
    ELSE IF stmt.line = 14 THEN "evasive_path_match"
    ELSE "$policyName"

InitAdvanced ==
    /\ IdleCloudlets
    /\ IdleAgg
    /\ IdleHelpers
    /\ tmplData \in { Some(cfg) : cfg \in Configurations }
    /\ tmplOut = Nil

\* the export executes both templates against the configuration
ExecuteAdvancedAndImportsTmpl ==
    /\ tmplData # Nil
    /\ tmplOut = Nil
    /\ tmplOut' = Some([imports |-> RenderImports(tmplData[1]),
                        advanced |-> RenderAdvanced(tmplData[1])])
    /\ UNCHANGED tmplData
    /\ UNCHANGED outsideTmpl

NextAdvanced == ExecuteAdvancedAndImportsTmpl

SpecAdvanced == InitAdvanced /\ [][NextAdvanced]_vars

AdvancedSettingsResources ==
    {"akamai_appsec_advanced_settings_logging",
     "akamai_appsec_advanced_settings_prefetch",
     "akamai_appsec_advanced_settings_pragma_header",
     "akamai_appsec_advanced_settings_evasive_path_match"}

\* the import statements for advanced settings, as blocks
AdvancedImports ==
    LET script == tmplOut[1].imports
        at == { i \in DOMAIN script : script[i].resource \in AdvancedSettingsResources }
    IN  [ i \in at |-> Block(script[i].resource, ImportName(script[i]), script[i].policy) ]

MaxTargets == 2

\* bound: a property has at most MaxTests liveness tests
MaxTests == 2

PropertyTypes == {"weighted-round-robin", "failover", "static", "STATIC"}

\* .Type | toUpper
toUpper(type) ==
    IF type \in {"static", "STATIC"} THEN "STATIC"
    ELSE IF type = "failover" THEN "FAILOVER"
    ELSE "WEIGHTED-ROUND-ROBIN"

\* the datacenters of the domain, by ID; 5400 is a default datacenter
DatacenterIds == {3131, 3132, 5400}

isDefaultDC(id) == id = 5400

FindDatacenterResourceName(id) ==
    IF id = 3131 THEN "TEST1" ELSE IF id = 3132 THEN "TEST2" ELSE ""

TrafficTargetLists == UNION { [1..n -> DatacenterIds] : n \in 0..MaxTargets }

LivenessTests ==
    [ErrorPenalty : {0, 75}, TestTimeout : {0, 25}, TimeoutPenalty : {0, 30}]

LivenessTestLists == UNION { [1..n -> LivenessTests] : n \in 0..MaxTests }

GtmProperties ==
    [Type : PropertyTypes, TrafficTargets : TrafficTargetLists,
     LivenessTests : LivenessTestLists]

\* {{.Name}} on a struct: <<>> if the struct has no field of that name, and
\* the execution of the template fails
Field(struct, name) == IF name \in DOMAIN struct THEN Some(struct[name]) ELSE Nil

\* lines 73-77 and 151-155: the address written for a datacenter
DatacenterAddress(id) ==
    IF isDefaultDC(id)
      THEN [resource |-> "data.akamai_gtm_default_datacenter", name |-> <<"default_datacenter", id>>]
      ELSE [resource |-> "akamai_gtm_datacenter", name |-> <<FindDatacenterResourceName(id), 0>>]

DomainAddress == [resource |-> "akamai_gtm_domain", name |-> <<"NormalizedName", 0>>]

\* lines 70-90: the traffic_target blocks
TrafficTargetBlocks(property) ==
    IF toUpper(property.Type) # "STATIC"
      THEN [ i \in DOMAIN property.TrafficTargets |->
               DatacenterAddress(property.TrafficTargets[i]) ]
      ELSE <<>>

\* {{- if .X}} x = {{.Y}} {{- end}}: <<>> if the execution fails, else
\* <<attr>> with attr = <<>> for an attribute left out
OptionalAttribute(struct, guard, field) ==
    IF struct[guard] = 0 THEN Some(Nil)
    ELSE IF Field(struct, field) = Nil THEN Nil
    ELSE Some(Field(struct, field))

\* lines 92-146: one liveness_test block; error_penalty is at lines 94-96
LivenessTestBlock(test) ==
    LET error_penalty == OptionalAttribute(test, "ErrorPenalty", "ErrrorPenalty")
        test_timeout == OptionalAttribute(test, "TestTimeout", "TestTimeout")
        timeout_penalty == OptionalAttribute(test, "TimeoutPenalty", "TimeoutPenalty")
    IN  IF error_penalty = Nil \/ test_timeout = Nil \/ timeout_penalty = Nil
          THEN Nil
          ELSE Some([error_penalty |-> error_penalty[1],
                     test_timeout |-> test_timeout[1],
                     timeout_penalty |-> timeout_penalty[1]])

\* lines 91-147: {{- range .LivenessTests}}
RECURSIVE RangeLivenessTests(_)
RangeLivenessTests(tests) ==
    IF tests = <<>> THEN Some(<<>>)
    ELSE LET block == LivenessTestBlock(Head(tests))
             rest == RangeLivenessTests(Tail(tests))
         IN  IF block = Nil \/ rest = Nil THEN Nil
             ELSE Some(block \o rest[1])

\* lines 148-159: depends_on
DependsOn(property) ==
    [ i \in DOMAIN property.TrafficTargets |->
        DatacenterAddress(property.TrafficTargets[i]) ]
    \o <<DomainAddress>>

\* the resource of one property: <<>> if the execution fails
RenderProperty(property) ==
    IF RangeLivenessTests(property.LivenessTests) = Nil THEN Nil
    ELSE Some([traffic_target |-> TrafficTargetBlocks(property),
               liveness_test |-> RangeLivenessTests(property.LivenessTests)[1],
               depends_on |-> DependsOn(property)])

InitGtm ==
    /\ IdleCloudlets
    /\ IdleAgg
    /\ IdleHelpers
    /\ tmplData \in { Some(property) : property \in GtmProperties }
    /\ tmplOut = Nil

ExecutePropertiesTmpl ==
    /\ tmplData # Nil
    /\ tmplOut = Nil
    /\ tmplOut' = Some(RenderProperty(tmplData[1]))
    /\ UNCHANGED tmplData
    /\ UNCHANGED outsideTmpl

NextGtm == ExecutePropertiesTmpl

SpecGtm == InitGtm /\ [][NextGtm]_vars

\* C29: in a rendered akamai_gtm_property block the datacenters listed in
\* depends_on are those the traffic_target blocks of the block refer to,
\* each at the same address (default datacenter or not), whatever the type
\* of the property, STATIC too, and the last entry of depends_on is the
\* domain.
C29_DependsOnMatchesTrafficTargets ==
    (tmplOut # Nil /\ tmplOut[1] # Nil) =>
      LET r == tmplOut[1][1]
          n == Len(r.depends_on)
      IN  /\ n >= 1
          /\ r.depends_on[n] = DomainAddress
          /\ { r.depends_on[i] : i \in 1..(n - 1) } =
               { r.traffic_target[i] : i \in DOMAIN r.traffic_target }

\* C30: the property is rendered whatever its liveness tests are, and in
\* each liveness_test block error_penalty is written, with the ErrorPenalty
\* of the test, exactly when ErrorPenalty is not zero, as test_timeout and
\* timeout_penalty are for TestTimeout and TimeoutPenalty.
C30_ErrorPenaltyRendered ==
    tmplOut # Nil =>
      /\ tmplOut[1] # Nil
      /\ LET tests == tmplData[1].LivenessTests
             blocks == tmplOut[1][1].liveness_test
         IN  /\ Len(blocks) = Len(tests)
             /\ \A i \in DOMAIN tests :
                  /\ blocks[i].error_penalty =
                       IF tests[i].ErrorPenalty # 0 THEN Some(tests[i].ErrorPenalty) ELSE Nil
                  /\ blocks[i].test_timeout =
                       IF tests[i].TestTimeout # 0 THEN Some(tests[i].TestTimeout) ELSE Nil
                  /\ blocks[i].timeout_penalty =
                       IF tests[i].TimeoutPenalty # 0 THEN Some(tests[i].TimeoutPenalty) ELSE Nil

====
